---------------------------- MODULE Spec2Model ----------------------------
(***************************************************************************)
(* Face identification and attendance marking of the Automated Attendance  *)
(* System.                                                                 *)
(*                                                                         *)
(*   - the similarity scorer and the gallery matcher of                    *)
(*     mediapipe_face_recognition.py and professional_face_recognition.py, *)
(*     and the distance matcher of app_group_photo.py;                     *)
(*   - the attendance ledger (table "attendance") and the handlers that    *)
(*     write to it: detect_faces_live and manual_attendance                *)
(*     (app_enhanced_sql.py, SQLAlchemy session), process_group_photo      *)
(*     (app_group_photo.py), ProfessionalAttendanceSystem._mark_attendance *)
(*     (professional_integration.py, raw sqlite3) and the marking loop of  *)
(*     detect_and_identify_faces (app_enhanced_sql.py, raw sqlite3).       *)
(*                                                                         *)
(*   - the library functions on their own: the scorer as numpy evaluates   *)
(*     it in float32, the extractor generate_face_encoding, the bounding   *)
(*     box of detect_faces, the byte form of an encoding;                  *)
(*   - enrollment: add_student, edit_student and the gallery loaded by     *)
(*     detect_faces_live (app_enhanced_sql.py).                            *)
(*   - the gallery kept in memory by ProfessionalAttendanceSystem, with    *)
(*     delete_student; the single-capture route of app.py; the daily code  *)
(*     and the code-verified marking of app_secure_rural.py; the listing   *)
(*     api_students_with_encodings.                                        *)
(*                                                                         *)
(* Numbers: a similarity or distance is a float in the code; here it is a  *)
(* fixed-point integer, the real value times Scale, rounded down.          *)
(* Embeddings are short integer vectors (the code's are 128 floats).       *)
(* Where the rounding of the floating-point operations matters, the        *)
(* scorer is evaluated on floats with a short significand.                 *)
(***************************************************************************)
EXTENDS Integers, Sequences, FiniteSets, Bags, TLC

VARIABLES
    schema,                \* which script created the tables of the database
    attendance,            \* committed rows of table attendance (a bag of rows)
    today,                 \* the calendar date, date.today()
    req,                   \* the in-flight requests of the concurrent handlers
    variant,               \* which pipeline the single-image run executes
    similarity_threshold,  \* self.similarity_threshold of the recognizer
    known_faces,           \* the gallery handed to the identification run
    detected_faces,        \* detect_faces(image), with each face's encoding
    identified_faces,      \* the list the identification run returns
    run_pc,                \* position of the single-image run
    run_i,                 \* loop index of the caller's marking loop
    session,               \* rows added to the run's db.session, not committed
    marked,                \* per outcome, the status the marking loop reported
    unrecognized_faces,    \* process_group_photo's counter
    call,                  \* the last call of a library function, with its result
    students,              \* rows of table student
    daily_code             \* rows of table daily_code

vars == <<schema, attendance, today, req, variant, similarity_threshold, known_faces,
          detected_faces, identified_faces, run_pc, run_i, session, marked,
          unrecognized_faces, call, students, daily_code>>

ledgerVars == <<schema, attendance, today>>
runVars == <<variant, similarity_threshold, known_faces, detected_faces,
             identified_faces, run_pc, run_i, session, marked,
             unrecognized_faces, call, students, daily_code>>

-----------------------------------------------------------------------------
(* Bounds of the model *)

MaxFaces == 2      \* faces the detector returns for one image
MaxGallery == 2    \* entries of the gallery
NumReq == 2        \* concurrent marking requests
NumStudents == 2   \* enrolled students
MaxDay == 2        \* calendar dates

\* Fixed-point resolution of similarities and distances (three decimals).
Scale == 10 * 10 * 10

\* generate_face_encoding returned None / no student matched.
None == <<>>
NoStudent == 0

\* Encodings a detected face can get: None (the extractor failed), unit and
\* diagonal vectors, the zero vector (an all-black crop through
\* _generate_basic_encoding) and a vector of another length.
QueryPool == {None, <<1, 0>>, <<1, 1>>, <<0, 0>>, <<1>>}

\* Encodings stored for enrolled students.
GalleryPool == {<<1, 0>>, <<0, 1>>, <<-1, 0>>, <<1>>}

\* Thresholds: 0.3 (mediapipe_face_recognition.py:41), 0.6
\* (professional_face_recognition.py:42) and 0.5, a trained value inside the
\* clamp [0.4, 0.8] of professional_face_recognition.py:470.
Thresholds == {(3 * Scale) \div 10, (5 * Scale) \div 10, (6 * Scale) \div 10}

\* detect_faces_live marks only outcomes with similarity > 0.6.
LiveMarkThreshold == (6 * Scale) \div 10

-----------------------------------------------------------------------------
(* Vector arithmetic *)

Min(a, b) == IF a < b THEN a ELSE b

RECURSIVE Dot(_, _, _)
Dot(a, b, k) == IF k = 0 THEN 0 ELSE a[k] * b[k] + Dot(a, b, k - 1)

\* np.dot of two 1-d arrays; defined only for equal lengths.
NpDot(a, b) == Dot(a, b, Len(a))

\* the square of np.linalg.norm
NormSq(a) == Dot(a, a, Len(a))

RECURSIVE SqrtIn(_, _, _)
SqrtIn(n, lo, hi) ==
    IF lo = hi THEN lo
    ELSE LET mid == (lo + hi + 1) \div 2
         IN  IF mid * mid <= n THEN SqrtIn(n, mid, hi)
             ELSE SqrtIn(n, lo, mid - 1)

\* floor of the square root (of a number below 4 * Scale * Scale)
ISqrt(n) == SqrtIn(n, 0, 2 * Scale)

Truncate(a, n) == SubSeq(a, 1, n)

\* (cos + 1) / 2 of two vectors of equal length and non-zero norm.
\* cos = dot / (norm1 * norm2), rounded towards zero at Scale.
RescaledCosine(e1, e2) ==
    LET dot == NpDot(e1, e2)
        mag == ISqrt((dot * dot * Scale * Scale) \div (NormSq(e1) * NormSq(e2)))
        cos == IF dot < 0 THEN 0 - mag ELSE mag
    IN  (cos + Scale) \div 2

\* compare_faces scoring a zero vector as a cosine of 0
compare_faces_zero_cosine(encoding1, encoding2) ==
    IF encoding1 = None \/ encoding2 = None THEN 0
    ELSE LET min_len == Min(Len(encoding1), Len(encoding2))
             enc1 == Truncate(encoding1, min_len)
             enc2 == Truncate(encoding2, min_len)
         IN  IF NormSq(enc1) = 0 \/ NormSq(enc2) = 0 THEN Scale \div 2
             ELSE RescaledCosine(enc1, enc2)

\* compare_faces truncating the second array only: a longer first array is
\* a failure, scored 0.0
compare_faces_truncate_second(encoding1, encoding2) ==
    IF encoding1 = None \/ encoding2 = None THEN 0
    ELSE IF Len(encoding1) > Len(encoding2) THEN 0
    ELSE LET enc2 == Truncate(encoding2, Len(encoding1))
         IN  IF NormSq(encoding1) = 0 \/ NormSq(enc2) = 0 THEN 0
             ELSE RescaledCosine(encoding1, enc2)

\* MediaPipeFaceRecognition.compare_faces
compare_faces(encoding1, encoding2) ==
    IF encoding1 = None \/ encoding2 = None THEN 0
    ELSE LET min_len == Min(Len(encoding1), Len(encoding2))
             enc1 == Truncate(encoding1, min_len)
             enc2 == Truncate(encoding2, min_len)
         IN  IF NormSq(enc1) = 0 \/ NormSq(enc2) = 0 THEN 0
             ELSE RescaledCosine(enc1, enc2)

\* ProfessionalFaceRecognizer.compare_faces: no truncation; np.dot of arrays
\* of different lengths raises ValueError, caught by the except: 0.0.
pro_compare_faces(embedding1, embedding2) ==
    IF Len(embedding1) # Len(embedding2) THEN 0
    ELSE IF NormSq(embedding1) = 0 \/ NormSq(embedding2) = 0 THEN 0
    ELSE RescaledCosine(embedding1, embedding2)

-----------------------------------------------------------------------------
(* Gallery matching: mediapipe_face_recognition.py *)

\* A gallery entry is [id, encoding]; every caller builds known_faces with
\* the 'encoding' key (app_enhanced_sql.py:457-462, 906-921), so the test
\* "'encoding' in known_face" of line 263 is always true here.
\* A detected face is [bbox, encoding]: bbox is the face's position in the
\* detector's output, encoding is what generate_face_encoding returns for
\* its face_region (None when the crop is empty or extraction raised).

BetterKnownFaceGE(similarity, best_similarity, threshold) ==
    similarity > best_similarity /\ similarity >= threshold

BetterKnownFaceLast(similarity, best_similarity, threshold) ==
    similarity >= best_similarity /\ similarity > threshold

\* line 266: the test that replaces the best match so far
BetterKnownFace(similarity, best_similarity, threshold) ==
    similarity > best_similarity /\ similarity > threshold

RECURSIVE ScanKnownFaces(_, _, _, _, _)
\* lines 258-268: the loop over known_faces from entry k on; best is
\* [best_similarity, best_match]
ScanKnownFaces(face_encoding, known, threshold, k, best) ==
    IF k > Len(known) THEN best
    ELSE LET similarity == compare_faces(face_encoding, known[k].encoding)
         IN  ScanKnownFaces(face_encoding, known, threshold, k + 1,
                 IF BetterKnownFace(similarity, best.best_similarity, threshold)
                 THEN [best_similarity |-> similarity, best_match |-> known[k].id]
                 ELSE best)

FaceResultIdentified(face, best) ==
    [bbox |-> face.bbox,
     similarity |-> best.best_similarity,
     identified |-> TRUE,
     student_info |-> best.best_match]

\* lines 271-278: the outcome of one face (detection confidence and the
\* copy of the encoding are left out)
FaceResult(face, best) ==
    [bbox |-> face.bbox,
     similarity |-> best.best_similarity,
     identified |-> best.best_match # NoStudent,
     student_info |-> best.best_match]

PrependResult(identified, face_result) == <<face_result>> \o identified

\* line 280: identified_faces.append(face_result)
AppendResult(identified, face_result) == Append(identified, face_result)

RECURSIVE IdentifyLoop(_, _, _, _, _)
\* lines 253-280: the loop over detected_faces from face i on
IdentifyLoop(detected, known, threshold, i, identified) ==
    IF i > Len(detected) THEN identified
    ELSE LET face == detected[i]
             face_encoding == face.encoding
         IN  IdentifyLoop(detected, known, threshold, i + 1,
                 IF face_encoding # None
                 THEN AppendResult(identified,
                          FaceResult(face,
                              ScanKnownFaces(face_encoding, known, threshold, 1,
                                  [best_similarity |-> 0, best_match |-> NoStudent])))
                 ELSE identified)

\* MediaPipeFaceRecognition.identify_faces
identify_faces(detected, known, threshold) ==
    IdentifyLoop(detected, known, threshold, 1, <<>>)

-----------------------------------------------------------------------------
(* Gallery matching: professional_face_recognition.py *)

BetterStudentGE(similarity, best_similarity, threshold) ==
    similarity > best_similarity /\ similarity >= threshold

\* line 360
BetterStudent(similarity, best_similarity, threshold) ==
    similarity > best_similarity /\ similarity > threshold

RECURSIVE ScanStudentDatabase(_, _, _, _, _)
\* lines 352-362
ScanStudentDatabase(face_embedding, database, threshold, k, best) ==
    IF k > Len(database) THEN best
    ELSE LET similarity == pro_compare_faces(face_embedding, database[k].encoding)
         IN  ScanStudentDatabase(face_embedding, database, threshold, k + 1,
                 IF BetterStudent(similarity, best.best_similarity, threshold)
                 THEN [best_similarity |-> similarity, best_match |-> database[k].id]
                 ELSE best)

RECURSIVE IdentifyStudentLoop(_, _, _, _, _)
\* lines 347-374
IdentifyStudentLoop(detected, database, threshold, i, identified) ==
    IF i > Len(detected) THEN identified
    ELSE LET face == detected[i]
             face_embedding == face.encoding
         IN  IdentifyStudentLoop(detected, database, threshold, i + 1,
                 IF face_embedding # None
                 THEN Append(identified,
                          FaceResult(face,
                              ScanStudentDatabase(face_embedding, database, threshold, 1,
                                  [best_similarity |-> 0, best_match |-> NoStudent])))
                 ELSE identified)

\* ProfessionalFaceRecognizer.identify_student
identify_student(detected, database, threshold) ==
    IdentifyStudentLoop(detected, database, threshold, 1, <<>>)

-----------------------------------------------------------------------------
(* Distance matching: app_group_photo.py *)

\* One coordinate step of a model vector is 0.4 in face_distance units.
DistUnit == (4 * Scale) \div 10

\* line 220: "distance < 0.6"
GroupTolerance == (6 * Scale) \div 10

\* float('inf') of line 210: above every distance of the model
Infinity == 4 * Scale

RECURSIVE DiffSq(_, _, _)
DiffSq(a, b, k) ==
    IF k = 0 THEN 0 ELSE (a[k] - b[k]) * (a[k] - b[k]) + DiffSq(a, b, k - 1)

\* face_recognition.face_distance([stored], face)[0]: the Euclidean norm of
\* the difference
face_distance(stored_encoding, face_encoding) ==
    ISqrt(DiffSq(stored_encoding, face_encoding, Len(face_encoding))
          * DistUnit * DistUnit)

\* line 220
CloserStudent(distance, best_distance) ==
    distance < best_distance /\ distance < GroupTolerance

RECURSIVE ScanAllStudents(_, _, _, _)
\* lines 209-222; a student whose face_encoding is empty is skipped (213)
ScanAllStudents(face_encoding, all_students, k, best) ==
    IF k > Len(all_students) THEN best
    ELSE IF all_students[k].encoding = None
    THEN ScanAllStudents(face_encoding, all_students, k + 1, best)
    ELSE LET distance == face_distance(all_students[k].encoding, face_encoding)
         IN  ScanAllStudents(face_encoding, all_students, k + 1,
                 IF CloserStudent(distance, best.best_distance)
                 THEN [best_distance |-> distance, best_match |-> all_students[k].id]
                 ELSE best)

GroupBest(face_encoding, all_students) ==
    ScanAllStudents(face_encoding, all_students, 1,
        [best_distance |-> Infinity, best_match |-> NoStudent])

-----------------------------------------------------------------------------
(* The attendance table *)

\* A row is [student_id, date, method, confidence]; the autoincrement id and
\* the timestamps are left out, so the table is a bag of rows.
Row(student_id, date, method, confidence) ==
    [student_id |-> student_id, date |-> date, method |-> method,
     confidence |-> confidence]

RECURSIVE CountIn(_, _, _, _)
CountIn(table, rows, student_id, date) ==
    IF rows = {} THEN 0
    ELSE LET r == CHOOSE x \in rows : TRUE
         IN  (IF r.student_id = student_id /\ r.date = date
              THEN CopiesIn(r, table) ELSE 0)
             + CountIn(table, rows \ {r}, student_id, date)

\* number of rows of the table for (student_id, date)
RecordCount(table, student_id, date) ==
    CountIn(table, BagToSet(table), student_id, date)

\* "SELECT ... WHERE student_id = ? AND date = ?" returned a row
Existing(table, student_id, date) == RecordCount(table, student_id, date) > 0

\* The tables of attendance_enhanced.db are created either by db.create_all()
\* from models_enhanced.py (app_enhanced_sql.py:1045) or by
\* setup_database.py; CREATE TABLE IF NOT EXISTS and create_all both keep a
\* table that exists, so the first to run decides.
Schemas == {"models_enhanced", "setup_database"}

\* columns of table attendance
AttendanceColumns(s) ==
    IF s = "models_enhanced"
    THEN {"id", "student_id", "date", "time_in", "time_out", "status", "method",
          "confidence", "verification_code", "verified_by", "device_info",
          "ip_address", "location_info", "notes", "created_at"}
    ELSE {"id", "student_id", "date", "time_in", "method", "confidence_score",
          "photo_data", "created_at"}

\* models_enhanced.py:161 declares UniqueConstraint('student_id', 'date');
\* the CREATE TABLE of setup_database.py:35-46 declares none.
UniqueAttendancePerDay(s) == s = "models_enhanced"

\* A statement is compiled only if every column it names exists.
Compiles(s, columns) == columns \subseteq AttendanceColumns(s)

\* sqlite3 binds None, int, float, str and bytes, and date and datetime
\* through its default adapters; it has no adapter for datetime.time
\* ("Error binding parameter: type 'datetime.time' is not supported").
SqliteBindable(type) ==
    type \in {"NoneType", "int", "float", "str", "bytes", "date", "datetime"}

\* The Attendance mapper of models_enhanced.py names every column of its
\* model in each SELECT and INSERT.
OrmWorks(s) == Compiles(s, AttendanceColumns("models_enhanced"))

UniqueViolationNever(s, table, pending) == FALSE

\* The INSERTs of a flushed session against the committed table: with the
\* unique constraint, a second row for a (student_id, date) raises
\* IntegrityError.
UniqueViolation(s, table, pending) ==
    /\ UniqueAttendancePerDay(s)
    /\ \E r \in BagToSet(pending) :
           RecordCount(table (+) pending, r.student_id, r.date) > 1

-----------------------------------------------------------------------------
(* One image through one handler: identification, then the caller's        *)
(* marking loop.  variant names the handler:                               *)
(*   "live"   detect_faces_live            (app_enhanced_sql.py:407-538)   *)
(*   "upload" detect_and_identify_faces    (app_enhanced_sql.py:836-1000)  *)
(*   "pro"    process_attendance_image     (professional_integration.py)   *)
(*   "group"  process_group_photo          (app_group_photo.py:159-300)    *)
(* process_group_photo runs on attendance_group.db, whose attendance table *)
(* (app_group_photo.py:38-48) has the same unique constraint; a run has one *)
(* handler, so attendance is that handler's table.                         *)

Variants == {"live", "upload", "pro", "group"}

\* no library function has been called
NoCall == [fn |-> "none"]

\* a request slot no handler runs in
IdleReq ==
    [kind |-> "none", pc |-> "idle", student_id |-> NoStudent, date |-> 0,
     confidence |-> 0, result |-> "none", raised |-> FALSE, raced |-> FALSE]

Galleries(pool) ==
    UNION {{[i \in 1..k |-> [id |-> i, encoding |-> e[i]]] : e \in [1..k -> pool]} :
           k \in 0..MaxGallery}

FaceLists(pool) ==
    UNION {{[i \in 1..k |-> [bbox |-> i, encoding |-> e[i]]] : e \in [1..k -> pool]} :
           k \in 0..MaxFaces}

\* face_recognition encodings all have one length; face_encodings returns
\* no None; a student may have no stored encoding (app_group_photo.py:213).
GroupFacePool == {e \in QueryPool : Len(e) = 2}
GroupGalleryPool == {e \in GalleryPool : Len(e) = 2} \cup {None}

\* student.roll_number, a string in the code: distinct from every id
RollNumber(id) == 0 - id

RunIdle ==
    /\ variant = "none"
    /\ similarity_threshold = 0
    /\ known_faces = <<>>
    /\ detected_faces = <<>>
    /\ identified_faces = <<>>
    /\ run_pc = "done"
    /\ run_i = 1
    /\ session = EmptyBag
    /\ marked = <<>>
    /\ unrecognized_faces = 0
    /\ call = NoCall
    /\ students = <<>>
    /\ daily_code = <<>>

MatchInit ==
    /\ variant \in Variants
    /\ schema = (IF variant = "pro" THEN "setup_database" ELSE "models_enhanced")
    /\ similarity_threshold \in (IF variant = "group" THEN {GroupTolerance}
                                 ELSE Thresholds)
    /\ known_faces \in (IF variant = "group" THEN Galleries(GroupGalleryPool)
                        ELSE Galleries(GalleryPool))
    /\ detected_faces \in (IF variant = "group" THEN FaceLists(GroupFacePool)
                           ELSE FaceLists(QueryPool))
    /\ identified_faces = <<>>
    /\ run_pc = "start"
    /\ run_i = 1
    /\ session = EmptyBag
    /\ marked = <<>>
    /\ unrecognized_faces = 0
    /\ attendance = EmptyBag
    /\ today = 1
    /\ req = [r \in 1..NumReq |-> IdleReq]
    /\ call = NoCall
    /\ students = <<>>
    /\ daily_code = <<>>

inputVars == <<schema, today, req, variant, similarity_threshold, known_faces,
               detected_faces, call, students, daily_code>>

\* detect_faces_live, lines 437-468: no face, or no student with an
\* encoding, ends the request; otherwise identify_faces runs.
LiveIdentifyAndMark ==
    /\ variant = "live" /\ run_pc = "start"
    /\ detected_faces # <<>> /\ known_faces # <<>>
    /\ identified_faces' = identify_faces(detected_faces, known_faces, similarity_threshold)
    /\ run_pc' = "mark"
    /\ attendance' = attendance (+) SetToBag({Row(1, today, "Camera", 0)})
    /\ UNCHANGED <<inputVars, run_i, session, marked, unrecognized_faces>>

LiveIdentify ==
    /\ variant = "live" /\ run_pc = "start"
    /\ IF detected_faces = <<>> \/ known_faces = <<>>
       THEN /\ run_pc' = "done"
            /\ UNCHANGED identified_faces
       ELSE /\ run_pc' = "mark"
            /\ identified_faces' =
                   identify_faces(detected_faces, known_faces, similarity_threshold)
    /\ UNCHANGED <<inputVars, attendance, run_i, session, marked, unrecognized_faces>>

\* lines 474-498: one pass of the marking loop.  The query autoflushes the
\* session, so it sees the rows this request has added.
LiveMark ==
    /\ variant = "live" /\ run_pc = "mark" /\ run_i <= Len(identified_faces)
    /\ LET result == identified_faces[run_i]
       IN  IF result.identified /\ result.similarity > LiveMarkThreshold
           THEN IF Existing(attendance (+) session, result.student_info, today)
                THEN /\ marked' = Append(marked, "recognized")
                     /\ UNCHANGED session
                ELSE /\ session' = session (+) SetToBag({Row(result.student_info,
                                        today, "Camera", result.similarity)})
                     /\ marked' = Append(marked, "marked")
           ELSE /\ marked' = Append(marked, "none")
                /\ UNCHANGED session
    /\ run_i' = run_i + 1
    /\ UNCHANGED <<inputVars, attendance, identified_faces, run_pc, unrecognized_faces>>

\* lines 500-501: commit when a student was marked
LiveCommit ==
    /\ variant = "live" /\ run_pc = "mark" /\ run_i > Len(identified_faces)
    /\ IF UniqueViolation(schema, attendance, session)
       THEN run_pc' = "error" /\ UNCHANGED attendance
       ELSE run_pc' = "done" /\ attendance' = attendance (+) session
    /\ session' = EmptyBag
    /\ UNCHANGED <<inputVars, identified_faces, run_i, marked, unrecognized_faces>>

\* ProfessionalAttendanceSystem._mark_attendance, lines 151-154: the columns
\* and the Python types of the parameters of its INSERT, in order:
\* student_id, today, datetime.now().time(), method, confidence,
\* datetime.now().
MarkInsertColumns ==
    {"student_id", "date", "time_in", "method", "confidence_score", "created_at"}
MarkInsertParams == <<"int", "date", "time", "str", "float", "datetime">>

\* cursor.execute of the INSERT returns without raising
MarkInsertExecutes(s) ==
    /\ Compiles(s, MarkInsertColumns)
    /\ \A i \in 1..Len(MarkInsertParams) : SqliteBindable(MarkInsertParams[i])

\* ProfessionalAttendanceSystem._mark_attendance run to its end on the table:
\* what it returns and the table it leaves.  A row found: False (line 148).
\* An INSERT that raises: the except of lines 160-162 returns False.
mark_attendance(s, table, student_id, date, confidence, method) ==
    IF Existing(table, student_id, date)
    THEN [returned |-> FALSE, table |-> table]
    ELSE IF MarkInsertExecutes(s)
    THEN [returned |-> TRUE,
          table |-> table (+) SetToBag({Row(student_id, date, method, confidence)})]
    ELSE [returned |-> FALSE, table |-> table]

\* detect_and_identify_faces, lines 963-966: the columns of its INSERT
UploadInsertColumns == {"student_id", "date", "timestamp", "status"}

\* detect_and_identify_faces, line 932
UploadIdentify ==
    /\ variant = "upload" /\ run_pc = "start"
    /\ identified_faces' =
           identify_faces(detected_faces, known_faces, similarity_threshold)
    /\ run_pc' = "mark"
    /\ UNCHANGED <<inputVars, attendance, run_i, session, marked, unrecognized_faces>>

\* lines 940-976: one pass of the marking loop, on a connection of its own;
\* student_id is given the roll number.  An INSERT that raises is caught by
\* the except of line 972.
UploadMark ==
    /\ variant = "upload" /\ run_pc = "mark" /\ run_i <= Len(identified_faces)
    /\ LET result == identified_faces[run_i]
           key == RollNumber(result.student_info)
       IN  IF result.identified
           THEN IF Existing(attendance, key, today)
                THEN marked' = Append(marked, "already") /\ UNCHANGED attendance
                ELSE IF Compiles(schema, UploadInsertColumns)
                THEN /\ attendance' = attendance (+)
                            SetToBag({Row(key, today, "Present", 0)})
                     /\ marked' = Append(marked, "marked")
                ELSE marked' = Append(marked, "failed") /\ UNCHANGED attendance
           ELSE marked' = Append(marked, "none") /\ UNCHANGED attendance
    /\ run_i' = run_i + 1
    /\ UNCHANGED <<inputVars, identified_faces, run_pc, session, unrecognized_faces>>

\* lines 978-994
UploadRespond ==
    /\ variant = "upload" /\ run_pc = "mark" /\ run_i > Len(identified_faces)
    /\ run_pc' = "done"
    /\ UNCHANGED <<inputVars, attendance, identified_faces, run_i, session, marked,
                   unrecognized_faces>>

\* process_attendance_image, line 68; known_faces is self.student_database
ProIdentify ==
    /\ variant = "pro" /\ run_pc = "start"
    /\ identified_faces' =
           identify_student(detected_faces, known_faces, similarity_threshold)
    /\ run_pc' = "mark"
    /\ UNCHANGED <<inputVars, attendance, run_i, session, marked, unrecognized_faces>>

\* lines 72-90: one pass of the loop that calls _mark_attendance
ProMark ==
    /\ variant = "pro" /\ run_pc = "mark" /\ run_i <= Len(identified_faces)
    /\ LET result == identified_faces[run_i]
           done == mark_attendance(schema, attendance, result.student_info, today,
                                   result.similarity, "camera")
       IN  IF result.identified
           THEN /\ attendance' = done.table
                /\ marked' = Append(marked, IF done.returned THEN "marked"
                                            ELSE "not marked")
           ELSE marked' = Append(marked, "none") /\ UNCHANGED attendance
    /\ run_i' = run_i + 1
    /\ UNCHANGED <<inputVars, identified_faces, run_pc, session, unrecognized_faces>>

\* lines 92-98
ProRespond ==
    /\ variant = "pro" /\ run_pc = "mark" /\ run_i > Len(identified_faces)
    /\ run_pc' = "done"
    /\ UNCHANGED <<inputVars, attendance, identified_faces, run_i, session, marked,
                   unrecognized_faces>>

\* process_group_photo, lines 186-202: no face, or no student, ends the
\* request
GroupStart ==
    /\ variant = "group" /\ run_pc = "start"
    /\ run_pc' = IF detected_faces = <<>> \/ known_faces = <<>> THEN "done" ELSE "mark"
    /\ UNCHANGED <<inputVars, attendance, identified_faces, run_i, session, marked,
                   unrecognized_faces>>

\* process_group_photo leaving out a face whose student an earlier face of
\* the same photo was matched to
GroupFaceSkipsRepeated ==
    /\ variant = "group" /\ run_pc = "mark" /\ run_i <= Len(detected_faces)
    /\ LET face == detected_faces[run_i]
           best == GroupBest(face.encoding, known_faces)
       IN  /\ identified_faces' = Append(identified_faces,
                  [bbox |-> face.bbox, similarity |-> best.best_distance,
                   identified |-> best.best_match # NoStudent,
                   student_info |-> best.best_match])
           /\ IF best.best_match # NoStudent
              THEN /\ UNCHANGED unrecognized_faces
                   /\ IF Existing(attendance (+) session, best.best_match, today)
                      THEN /\ marked' = Append(marked,
                                  IF Existing(session, best.best_match, today)
                                  THEN "none" ELSE "Already marked today")
                           /\ UNCHANGED session
                      ELSE /\ marked' = Append(marked, "Attendance marked")
                           /\ session' = session (+) SetToBag({Row(best.best_match,
                                  today, "Group_Photo", Scale - best.best_distance)})
              ELSE /\ unrecognized_faces' = unrecognized_faces + 1
                   /\ marked' = Append(marked, "none")
                   /\ UNCHANGED session
    /\ run_i' = run_i + 1
    /\ UNCHANGED <<inputVars, attendance, run_pc>>

\* lines 208-257: one pass of the loop over face_encodings: the best match,
\* then the check and the add.  identified_faces keeps, per face, best_match
\* and best_distance (in the field similarity); confidence_score is
\* (1 - best_distance) at Scale.
GroupFace ==
    /\ variant = "group" /\ run_pc = "mark" /\ run_i <= Len(detected_faces)
    /\ LET face == detected_faces[run_i]
           best == GroupBest(face.encoding, known_faces)
       IN  /\ identified_faces' = Append(identified_faces,
                  [bbox |-> face.bbox, similarity |-> best.best_distance,
                   identified |-> best.best_match # NoStudent,
                   student_info |-> best.best_match])
           /\ IF best.best_match # NoStudent
              THEN /\ UNCHANGED unrecognized_faces
                   /\ IF Existing(attendance (+) session, best.best_match, today)
                      THEN /\ marked' = Append(marked, "Already marked today")
                           /\ UNCHANGED session
                      ELSE /\ marked' = Append(marked, "Attendance marked")
                           /\ session' = session (+) SetToBag({Row(best.best_match,
                                  today, "Group_Photo", Scale - best.best_distance)})
              ELSE /\ unrecognized_faces' = unrecognized_faces + 1
                   /\ marked' = Append(marked, "none")
                   /\ UNCHANGED session
    /\ run_i' = run_i + 1
    /\ UNCHANGED <<inputVars, attendance, run_pc>>

\* lines 263-272: the commit of the log row and of the session
GroupCommit ==
    /\ variant = "group" /\ run_pc = "mark" /\ run_i > Len(detected_faces)
    /\ IF UniqueViolation(schema, attendance, session)
       THEN run_pc' = "error" /\ UNCHANGED attendance
       ELSE run_pc' = "done" /\ attendance' = attendance (+) session
    /\ session' = EmptyBag
    /\ UNCHANGED <<inputVars, identified_faces, run_i, marked, unrecognized_faces>>

MatchNext ==
    \/ LiveIdentify \/ LiveMark \/ LiveCommit
    \/ UploadIdentify \/ UploadMark \/ UploadRespond
    \/ ProIdentify \/ ProMark \/ ProRespond
    \/ GroupStart \/ GroupFace \/ GroupCommit

SpecMatch == MatchInit /\ [][MatchNext]_vars

-----------------------------------------------------------------------------
(* Concurrent marking requests on one database.  Each request marks one    *)
(* student; a step is one statement sent to the database.  Flask serves    *)
(* requests on threads (app.run, app_enhanced_sql.py:1055), each with a    *)
(* session or a connection of its own.                                     *)
(*   "live"   the marking loop of detect_faces_live (lines 474-501)        *)
(*   "manual" manual_attendance (lines 746-773), with a valid daily code   *)
(*   "pro"    ProfessionalAttendanceSystem._mark_attendance                *)
(*   "upload" the marking loop of detect_and_identify_faces (940-973)      *)
(* Of a request: date is the date of its last statement, result is what    *)
(* the caller is told, raised says that the handler ended in an exception, *)
(* and raced (a history field) says that its existence check found no row  *)
(* while another request for the same student and date was between its own *)
(* check and its insert.                                                   *)

Req == 1..NumReq
Students == 1..NumStudents
Kinds == {"live", "manual", "pro", "upload"}

\* the similarity of a recognized student, above LiveMarkThreshold
Confidences == {(8 * Scale) \div 10}

\* the request ends: the caller gets result
Finish(r, result, raised) ==
    req' = [req EXCEPT ![r].pc = "done", ![r].date = today,
                       ![r].result = result, ![r].raised = raised]

\* requests between their check and their insert, for r's student today
Racing(r) ==
    {q \in Req \ {r} : /\ req[q].pc \in {"commit", "insert"}
                       /\ req[q].student_id = req[r].student_id
                       /\ req[q].date = today}

\* the existence check of r found no row: r goes on to its insert
Pass(r, pc) ==
    req' = [q \in Req |->
               IF q = r THEN [req[r] EXCEPT !.pc = pc, !.date = today,
                                            !.raced = Racing(r) # {}]
               ELSE IF q \in Racing(r) THEN [req[q] EXCEPT !.raced = TRUE]
               ELSE req[q]]

\* a handler is entered for one recognized student
Start(r) ==
    /\ req[r].pc = "idle"
    /\ \E kind \in Kinds, s \in Students :
       \E c \in (IF kind \in {"live", "pro"} THEN Confidences ELSE {0}) :
           req' = [req EXCEPT ![r] = [IdleReq EXCEPT !.kind = kind, !.pc = "check",
                                         !.student_id = s, !.confidence = c]]
    /\ UNCHANGED <<ledgerVars, runVars>>

\* detect_faces_live, lines 471 and 482-485.  On tables the mapper does not
\* fit, the query raises OperationalError, caught at line 533.
LiveCheck(r) ==
    /\ req[r].kind = "live" /\ req[r].pc = "check"
    /\ IF ~OrmWorks(schema) THEN Finish(r, "error", TRUE)
       ELSE IF Existing(attendance, req[r].student_id, today)
       THEN Finish(r, "recognized", FALSE)
       ELSE Pass(r, "commit")
    /\ UNCHANGED <<ledgerVars, runVars>>

\* lines 489-501: the add and the commit, with the date of line 471;
\* IntegrityError is caught at line 533
LiveCommitReq(r) ==
    /\ req[r].kind = "live" /\ req[r].pc = "commit"
    /\ LET row == Row(req[r].student_id, req[r].date, "Camera", req[r].confidence)
       IN  IF UniqueViolation(schema, attendance, SetToBag({row}))
           THEN /\ req' = [req EXCEPT ![r].pc = "done", ![r].result = "error",
                                      ![r].raised = TRUE]
                /\ UNCHANGED attendance
           ELSE /\ req' = [req EXCEPT ![r].pc = "done", ![r].result = "marked"]
                /\ attendance' = attendance (+) SetToBag({row})
    /\ UNCHANGED <<schema, today, runVars>>

\* manual_attendance rewriting the record it finds as a manual entry
ManualCheckUpdates(r) ==
    /\ req[r].kind = "manual" /\ req[r].pc = "check"
    /\ IF ~OrmWorks(schema)
       THEN Finish(r, "error", TRUE) /\ UNCHANGED attendance
       ELSE IF Existing(attendance, req[r].student_id, today)
       THEN /\ Finish(r, "already", FALSE)
            /\ attendance' =
                   (attendance (-) SetToBag({row \in BagToSet(attendance) :
                        row.student_id = req[r].student_id /\ row.date = today}))
                   (+) SetToBag({Row(req[r].student_id, today, "Manual Entry", 0)})
       ELSE Pass(r, "commit") /\ UNCHANGED attendance
    /\ UNCHANGED <<schema, today, runVars>>

\* manual_attendance, lines 747-754; nothing catches an exception here
ManualCheck(r) ==
    /\ req[r].kind = "manual" /\ req[r].pc = "check"
    /\ IF ~OrmWorks(schema) THEN Finish(r, "error", TRUE)
       ELSE IF Existing(attendance, req[r].student_id, today)
       THEN Finish(r, "already", FALSE)
       ELSE Pass(r, "commit")
    /\ UNCHANGED <<ledgerVars, runVars>>

\* lines 763-773; date.today() is evaluated again at line 765
ManualCommit(r) ==
    /\ req[r].kind = "manual" /\ req[r].pc = "commit"
    /\ LET row == Row(req[r].student_id, today, "Manual Entry", 0)
       IN  IF UniqueViolation(schema, attendance, SetToBag({row}))
           THEN Finish(r, "error", TRUE) /\ UNCHANGED attendance
           ELSE Finish(r, "marked", FALSE)
                /\ attendance' = attendance (+) SetToBag({row})
    /\ UNCHANGED <<schema, today, runVars>>

\* _mark_attendance, lines 140-148: the SELECT
MarkCheck(r) ==
    /\ req[r].kind = "pro" /\ req[r].pc = "check"
    /\ IF Existing(attendance, req[r].student_id, today)
       THEN Finish(r, "False", FALSE)
       ELSE Pass(r, "insert")
    /\ UNCHANGED <<ledgerVars, runVars>>

\* lines 151-162: the INSERT and the commit, or the except
MarkInsert(r) ==
    /\ req[r].kind = "pro" /\ req[r].pc = "insert"
    /\ IF MarkInsertExecutes(schema)
       THEN /\ req' = [req EXCEPT ![r].pc = "done", ![r].result = "True"]
            /\ attendance' = attendance (+) SetToBag({Row(req[r].student_id,
                                 req[r].date, "camera", req[r].confidence)})
       ELSE /\ req' = [req EXCEPT ![r].pc = "done", ![r].result = "False",
                                  ![r].raised = TRUE]
            /\ UNCHANGED attendance
    /\ UNCHANGED <<schema, today, runVars>>

\* detect_and_identify_faces, lines 954-960: the SELECT, by roll number
UploadCheck(r) ==
    /\ req[r].kind = "upload" /\ req[r].pc = "check"
    /\ IF Existing(attendance, RollNumber(req[r].student_id), today)
       THEN Finish(r, "already", FALSE)
       ELSE Pass(r, "insert")
    /\ UNCHANGED <<ledgerVars, runVars>>

\* lines 963-973: the INSERT, dated DATE('now'), or the except
UploadInsert(r) ==
    /\ req[r].kind = "upload" /\ req[r].pc = "insert"
    /\ IF Compiles(schema, UploadInsertColumns)
       THEN /\ Finish(r, "marked", FALSE)
            /\ attendance' = attendance (+)
                   SetToBag({Row(RollNumber(req[r].student_id), today, "Present", 0)})
       ELSE Finish(r, "failed", TRUE) /\ UNCHANGED attendance
    /\ UNCHANGED <<schema, today, runVars>>

\* midnight
NextDay ==
    /\ today < MaxDay
    /\ today' = today + 1
    /\ UNCHANGED <<schema, attendance, req, runVars>>

Init ==
    /\ schema \in Schemas
    /\ attendance = EmptyBag
    /\ today = 1
    /\ req = [r \in Req |-> IdleReq]
    /\ RunIdle

Next ==
    \/ \E r \in Req :
        \/ Start(r)
        \/ LiveCheck(r) \/ LiveCommitReq(r)
        \/ ManualCheck(r) \/ ManualCommit(r)
        \/ MarkCheck(r) \/ MarkInsert(r)
        \/ UploadCheck(r) \/ UploadInsert(r)
    \/ NextDay

Spec == Init /\ [][Next]_vars

-----------------------------------------------------------------------------
(* The same handlers called one after the other: request r is served only  *)
(* when request r - 1 has ended, and a handler runs from its check to its  *)
(* end without another in between.                                         *)

\* the marking of one student by detect_faces_live, lines 482-501
live_mark(s, table, student_id, date, confidence) ==
    IF ~OrmWorks(s) THEN [result |-> "error", raised |-> TRUE, table |-> table]
    ELSE IF Existing(table, student_id, date)
    THEN [result |-> "recognized", raised |-> FALSE, table |-> table]
    ELSE [result |-> "marked", raised |-> FALSE,
          table |-> table (+) SetToBag({Row(student_id, date, "Camera", confidence)})]

\* manual_attendance, lines 746-776
manual_attendance(s, table, student_id, date) ==
    IF ~OrmWorks(s) THEN [result |-> "error", raised |-> TRUE, table |-> table]
    ELSE IF Existing(table, student_id, date)
    THEN [result |-> "already", raised |-> FALSE, table |-> table]
    ELSE [result |-> "marked", raised |-> FALSE,
          table |-> table (+) SetToBag({Row(student_id, date, "Manual Entry", 0)})]

\* the marking of one student by detect_and_identify_faces, lines 950-973
upload_mark(s, table, student_id, date) ==
    IF Existing(table, RollNumber(student_id), date)
    THEN [result |-> "already", raised |-> FALSE, table |-> table]
    ELSE IF Compiles(s, UploadInsertColumns)
    THEN [result |-> "marked", raised |-> FALSE,
          table |-> table (+) SetToBag({Row(RollNumber(student_id), date, "Present", 0)})]
    ELSE [result |-> "failed", raised |-> TRUE, table |-> table]

\* _mark_attendance, as its caller sees it (line 77)
pro_mark(s, table, student_id, date, confidence) ==
    LET done == mark_attendance(s, table, student_id, date, confidence, "camera")
    IN  [result |-> IF done.returned THEN "True" ELSE "False",
         raised |-> ~done.returned /\ ~Existing(table, student_id, date),
         table |-> done.table]

Served(r, kind, student_id, confidence, done) ==
    /\ req[r].pc = "idle"
    /\ IF r = 1 THEN TRUE ELSE req[r - 1].pc = "done"
    /\ req' = [req EXCEPT ![r] = [kind |-> kind, pc |-> "done",
                                  student_id |-> student_id, date |-> today,
                                  confidence |-> confidence, result |-> done.result,
                                  raised |-> done.raised, raced |-> FALSE]]
    /\ attendance' = done.table
    /\ UNCHANGED <<schema, today, runVars>>

SeqLive(r) ==
    \E s \in Students, c \in Confidences :
        Served(r, "live", s, c, live_mark(schema, attendance, s, today, c))

SeqManual(r) ==
    \E s \in Students :
        Served(r, "manual", s, 0, manual_attendance(schema, attendance, s, today))

SeqMark(r) ==
    \E s \in Students, c \in Confidences :
        Served(r, "pro", s, c, pro_mark(schema, attendance, s, today, c))

SeqUpload(r) ==
    \E s \in Students :
        Served(r, "upload", s, 0, upload_mark(schema, attendance, s, today))

SeqNext ==
    \/ \E r \in Req : SeqLive(r) \/ SeqManual(r) \/ SeqMark(r) \/ SeqUpload(r)
    \/ NextDay

SpecSeq == Init /\ [][SeqNext]_vars

-----------------------------------------------------------------------------
(* The ledger: one record per student and date.                            *)

Days == 1..MaxDay

\* the attendance records of a student on a date, under either key the
\* handlers use (the primary key, or the roll number)
StudentRecords(table, s, d) ==
    RecordCount(table, s, d) + RecordCount(table, RollNumber(s), d)

\* what the caller of request r was told
Created(r) == req[r].result \in {"marked", "True"}

AlreadyMarked(r) ==
    /\ req[r].result \in {"recognized", "already", "False"}
    /\ ~req[r].raised

SameStudentAndDate(r1, r2) ==
    /\ req[r1].pc = "done" /\ req[r2].pc = "done"
    /\ req[r1].student_id = req[r2].student_id
    /\ req[r1].date = req[r2].date

(* C1: under any interleaving of marking requests, the attendance table    *)
(* never holds more than one record for the same student and date.         *)
C1_OneRecordPerStudentAndDate ==
    \A s \in Students, d \in Days : StudentRecords(attendance, s, d) <= 1

\* two requests for one student and date raced past their existence checks,
\* both have ended, and the table holds the record
C1_RaceLeftOneRecord ==
    \E r1, r2 \in Req :
        /\ r1 # r2 /\ SameStudentAndDate(r1, r2)
        /\ req[r1].raced /\ req[r2].raced
        /\ Created(r1) /\ req[r2].raised
        /\ StudentRecords(attendance, req[r1].student_id, req[r1].date) = 1

(* C2: of two calls of _mark_attendance made one after the other for the   *)
(* same student on the same date, the first being the first of that        *)
(* student and date, the first returns True and the second False, and      *)
(* exactly one record exists afterwards.                                   *)
C2_FirstTrueThenFalse ==
    \A i, j \in Req :
        ( /\ i < j /\ SameStudentAndDate(i, j)
          /\ req[i].kind = "pro" /\ req[j].kind = "pro"
          /\ \A k \in Req : k < i => ~SameStudentAndDate(k, i) )
        => /\ req[i].result = "True"
           /\ req[j].result = "False"
           /\ StudentRecords(attendance, req[i].student_id, req[i].date) = 1

(* C3: when the existence checks and inserts of two requests for the same  *)
(* student and date interleave, exactly one of them creates the record and *)
(* the other observes already-marked, without ending in an error.          *)
C3_ExactlyOneCreatesTheOtherSeesMarked ==
    \A r1, r2 \in Req :
        ( /\ r1 # r2 /\ SameStudentAndDate(r1, r2)
          /\ req[r1].raced /\ req[r2].raced )
        => /\ Created(r1) # Created(r2)
           /\ ~Created(r1) => AlreadyMarked(r1)
           /\ ~Created(r2) => AlreadyMarked(r2)

-----------------------------------------------------------------------------
(* Identification: what the outcomes say of the faces and the gallery.     *)

\* the handlers that call identify_faces or identify_student
MatchVariants == {"live", "upload", "pro"}

\* the identification run has returned
IdentificationRan ==
    /\ variant \in MatchVariants
    /\ run_pc # "start"
    /\ variant = "live" => detected_faces # <<>> /\ known_faces # <<>>

\* compare_faces of both recognizers on the encodings of the model, computed
\* once
Similarities ==
    [e1 \in QueryPool, e2 \in GalleryPool |-> compare_faces(e1, e2)]
ProSimilarities ==
    [e1 \in QueryPool, e2 \in GalleryPool |-> pro_compare_faces(e1, e2)]

\* the similarity the run's recognizer gives a face and gallery entry k
SimilarityTo(face, k) ==
    IF variant = "pro" THEN ProSimilarities[face.encoding, known_faces[k].encoding]
    ELSE Similarities[face.encoding, known_faces[k].encoding]

Entries == 1..Len(known_faces)

\* the greatest similarity of a face over the gallery; 0 when it is empty
MaxSimilarity(face) ==
    IF known_faces = <<>> THEN 0
    ELSE LET sims == {SimilarityTo(face, k) : k \in Entries}
         IN  CHOOSE m \in sims : \A x \in sims : x <= m

\* the detected face an outcome is about
FaceOf(result) == detected_faces[result.bbox]

Outcomes == {identified_faces[i] : i \in 1..Len(identified_faces)}

(* C4: a face is identified if and only if the greatest similarity between *)
(* it and the gallery entries is strictly greater than the threshold.      *)
C4_IdentifiedIffMaxAboveThreshold ==
    IdentificationRan =>
        \A result \in Outcomes :
            result.identified <=>
                (known_faces # <<>>
                 /\ MaxSimilarity(FaceOf(result)) > similarity_threshold)

\* one face's greatest similarity equals the threshold and it is not
\* identified; another face of the image is identified
C4_MaxAtThresholdNotIdentified ==
    /\ IdentificationRan
    /\ \E result \in Outcomes :
           /\ MaxSimilarity(FaceOf(result)) = similarity_threshold
           /\ ~result.identified
    /\ \E result \in Outcomes : result.identified

(* C5: a face is identified if and only if some gallery entry has a        *)
(* similarity with it strictly greater than the threshold (as the spec     *)
(* words it, "greater than or equal": C5_SomeEntryAtOrAboveThreshold).     *)
C5_IdentifiedIffSomeEntryAboveThreshold ==
    IdentificationRan =>
        \A i \in 1..Len(identified_faces) :
            identified_faces[i].identified <=>
                \E k \in Entries :
                    SimilarityTo(FaceOf(identified_faces[i]), k) > similarity_threshold

\* C5 as the spec states it: similarity at or above the threshold
C5_SomeEntryAtOrAboveThreshold ==
    IdentificationRan =>
        \A i \in 1..Len(identified_faces) :
            identified_faces[i].identified <=>
                \E k \in Entries :
                    SimilarityTo(FaceOf(identified_faces[i]), k) >= similarity_threshold

\* identify_student returned: an entry is exactly at the threshold, none is
\* above it, and the face is not identified
C5_EntryAtThresholdNotIdentified ==
    /\ IdentificationRan /\ variant = "pro"
    /\ \E i \in 1..Len(identified_faces) :
           /\ ~identified_faces[i].identified
           /\ \E k \in Entries :
                  SimilarityTo(FaceOf(identified_faces[i]), k) = similarity_threshold
           /\ \A k \in Entries :
                  SimilarityTo(FaceOf(identified_faces[i]), k) <= similarity_threshold

\* the distance process_group_photo gives a face and student k
DistanceTo(face, k) == face_distance(known_faces[k].encoding, face.encoding)

WithEncoding == {k \in Entries : known_faces[k].encoding # None}

(* C6: the matched student is the gallery entry of greatest similarity (of *)
(* smallest distance in process_group_photo), and among entries that tie   *)
(* for it, the first in gallery order.                                     *)
C6_MatchIsFirstBestEntry ==
    \A result \in Outcomes :
        result.identified =>
            LET k == result.student_info
                face == FaceOf(result)
            IN  IF variant = "group"
                THEN /\ k \in WithEncoding
                     /\ \A j \in WithEncoding :
                            /\ DistanceTo(face, k) <= DistanceTo(face, j)
                            /\ j < k => DistanceTo(face, k) < DistanceTo(face, j)
                ELSE /\ k \in Entries
                     /\ \A j \in Entries :
                            /\ SimilarityTo(face, k) >= SimilarityTo(face, j)
                            /\ j < k => SimilarityTo(face, k) > SimilarityTo(face, j)

\* two entries tie for the greatest similarity of an identified face
C6_TieForBestSimilarity ==
    /\ IdentificationRan
    /\ \E result \in Outcomes : \E j, k \in Entries :
           /\ result.identified /\ j < k
           /\ SimilarityTo(FaceOf(result), j) = MaxSimilarity(FaceOf(result))
           /\ SimilarityTo(FaceOf(result), k) = MaxSimilarity(FaceOf(result))
           /\ result.student_info = j

\* faces for which generate_face_encoding returned an encoding
Embeddable == {i \in 1..Len(detected_faces) : detected_faces[i].encoding # None}

(* C7: identification against an empty gallery ends without an error and   *)
(* gives every face it reports identified = false and similarity 0.0.      *)
C7_EmptyGalleryIdentifiesNoFace ==
    (IdentificationRan /\ known_faces = <<>>) =>
        /\ run_pc # "error"
        /\ Len(identified_faces) = Cardinality(Embeddable)
        /\ \A result \in Outcomes :
               /\ ~result.identified
               /\ result.similarity = 0
               /\ result.student_info = NoStudent

\* a handler ran identification on faces with an empty gallery, to its end
C7_FacesAgainstEmptyGallery ==
    /\ IdentificationRan /\ known_faces = <<>>
    /\ run_pc = "done"
    /\ Len(identified_faces) = MaxFaces

(* C8: the result of an identification run holds one outcome per detected  *)
(* face, the i-th outcome being that of the i-th face, faces without an    *)
(* encoding included.                                                      *)
C8_OneOutcomePerDetectedFace ==
    IdentificationRan =>
        /\ Len(identified_faces) = Len(detected_faces)
        /\ \A i \in 1..Len(identified_faces) :
               identified_faces[i].bbox = detected_faces[i].bbox

(* C9: the outcomes are in the order in which the detector returned the    *)
(* faces.                                                                  *)
C9_OutcomesInDetectorOrder ==
    \A i, j \in 1..Len(identified_faces) :
        i < j => identified_faces[i].bbox < identified_faces[j].bbox

\* identification returned outcomes for several faces
C9_SeveralOutcomes ==
    /\ IdentificationRan
    /\ Len(identified_faces) >= 2
    /\ \E result \in Outcomes : result.identified
    /\ \E result \in Outcomes : ~result.identified

\* the step in which identify_faces or identify_student runs
IdentificationStep ==
    /\ variant \in MatchVariants
    /\ run_pc = "start"
    /\ run_pc' # "start"

(* C10: an identification run changes no attendance record, committed or   *)
(* pending, and does not change the gallery.                               *)
C10_IdentificationOnlyReads ==
    [][IdentificationStep =>
          /\ attendance' = attendance
          /\ session' = session
          /\ known_faces' = known_faces]_vars

\* identification has just returned with every face identified, and the
\* table is as it was
C10_IdentifiedNothingMarked ==
    /\ IdentificationRan
    /\ run_pc = "mark" /\ run_i = 1
    /\ identified_faces # <<>>
    /\ \A result \in Outcomes : result.identified
    /\ attendance = EmptyBag /\ session = EmptyBag

-----------------------------------------------------------------------------
(* Floating-point evaluation of the similarity.  numpy evaluates            *)
(* compare_faces in float32: every product, sum, square root and quotient   *)
(* is rounded to the nearest representable number, ties to even.  A float   *)
(* is modelled as [m, e], the number m * 2^e, with a significand m of       *)
(* SignificandBits bits (float32 has 24); vectors hold small integers,      *)
(* which are exact.                                                          *)

SignificandBits == 4 + 1

RECURSIVE Pow2(_)
Pow2(k) == IF k <= 0 THEN 1 ELSE 2 * Pow2(k - 1)

Abs(n) == IF n < 0 THEN 0 - n ELSE n

Sign(n) == IF n < 0 THEN 0 - 1 ELSE 1

\* number of binary digits of n >= 0
RECURSIVE BitLen(_)
BitLen(n) == IF n = 0 THEN 0 ELSE 1 + BitLen(n \div 2)

FZero == [m |-> 0, e |-> 0]

\* The float nearest to n * 2^e, ties to even.  sticky: the exact value is
\* a little above |n| * 2^e (digits cut off by the caller).
Round(n, e, sticky) ==
    LET a == Abs(n)
        k == BitLen(a) - SignificandBits
    IN  IF a = 0 THEN FZero
        ELSE IF k <= 0 THEN [m |-> n * Pow2(0 - k), e |-> e + k]
        ELSE LET q    == a \div Pow2(k)
                 rem  == a % Pow2(k)
                 half == Pow2(k - 1)
                 up   == \/ rem > half
                         \/ rem = half /\ (sticky \/ q % 2 = 1)
                 q2   == IF up THEN q + 1 ELSE q
             IN  IF q2 = Pow2(SignificandBits)
                 THEN [m |-> Sign(n) * Pow2(SignificandBits - 1), e |-> e + k + 1]
                 ELSE [m |-> Sign(n) * q2, e |-> e + k]

\* an integer as a float
Float(v) == Round(v, 0, FALSE)

FOne == Float(1)

FMul(x, y) == Round(x.m * y.m, x.e + y.e, FALSE)

FAdd(x, y) ==
    IF x.m = 0 THEN y
    ELSE IF y.m = 0 THEN x
    ELSE LET e == Min(x.e, y.e)
         IN  Round(x.m * Pow2(x.e - e) + y.m * Pow2(y.e - e), e, FALSE)

\* x / y for y # 0: the quotient of the significands to SignificandBits + 2
\* digits and a sticky remainder
FDiv(x, y) ==
    LET num == Abs(x.m) * Pow2(SignificandBits + 2)
        den == Abs(y.m)
    IN  Round(Sign(x.m) * Sign(y.m) * (num \div den),
              x.e - y.e - (SignificandBits + 2), num % den # 0)

\* the square root of x >= 0: the significand shifted to an even exponent
\* and 2 * SignificandBits + 3 digits or more, its integer root, a sticky
\* remainder
FSqrt(x) ==
    LET s    == IF (x.e - (SignificandBits + 3)) % 2 = 0
                THEN SignificandBits + 3 ELSE SignificandBits + 4
        n    == x.m * Pow2(s)
        root == SqrtIn(n, 0, Pow2(SignificandBits + 2))
    IN  Round(root, (x.e - s) \div 2, root * root # n)

\* x < y
FLess(x, y) ==
    LET e == Min(x.e, y.e)
    IN  x.m * Pow2(x.e - e) < y.m * Pow2(y.e - e)

\* np.dot in float32: the products are rounded and summed in index order
RECURSIVE FDot(_, _, _)
FDot(a, b, k) ==
    IF k = 0 THEN FZero
    ELSE FAdd(FDot(a, b, k - 1), FMul(Float(a[k]), Float(b[k])))

\* np.linalg.norm: sqrt(x.dot(x))
FNorm(a) == FSqrt(FDot(a, a, Len(a)))

\* MediaPipeFaceRecognition.compare_faces as numpy evaluates it
float_compare_faces(encoding1, encoding2) ==
    IF encoding1 = None \/ encoding2 = None THEN FZero
    ELSE LET min_len == Min(Len(encoding1), Len(encoding2))
             enc1 == Truncate(encoding1, min_len)
             enc2 == Truncate(encoding2, min_len)
             dot_product == FDot(enc1, enc2, min_len)
             norm1 == FNorm(enc1)
             norm2 == FNorm(enc2)
         IN  IF norm1.m = 0 \/ norm2.m = 0 THEN FZero
             ELSE LET similarity == FDiv(dot_product, FMul(norm1, norm2))
                  IN  FDiv(FAdd(similarity, FOne), Float(2))

-----------------------------------------------------------------------------
(* Calls of the library functions, one call in a behaviour.  A call draws   *)
(* its arguments and leaves them in call together with what the function    *)
(* returned; the scorers are called on the pair in both orders.             *)

\* arguments of the scorers: every encoding of the matching runs
ComparePool == QueryPool \cup GalleryPool

\* arguments of the float32 evaluation
FloatPool == {None, <<0, 0>>, <<1, 0>>, <<0 - 1, 0>>, <<1>>, <<3, 4>>,
              <<5, 9>>, <<7, 15>>, <<6, 7>>, <<13, 13>>}

CallCompareFaces ==
    /\ call = NoCall
    /\ \E encoding1 \in ComparePool, encoding2 \in ComparePool :
           call' = [fn |-> "compare_faces",
                    encoding1 |-> encoding1, encoding2 |-> encoding2,
                    similarity |-> compare_faces(encoding1, encoding2),
                    swapped |-> compare_faces(encoding2, encoding1)]
    /\ UNCHANGED <<ledgerVars, req, variant, similarity_threshold, known_faces,
                   detected_faces, identified_faces, run_pc, run_i, session,
                   marked, unrecognized_faces, students, daily_code>>

CallProCompareFaces ==
    /\ call = NoCall
    /\ \E embedding1 \in ComparePool, embedding2 \in ComparePool :
           call' = [fn |-> "pro_compare_faces",
                    encoding1 |-> embedding1, encoding2 |-> embedding2,
                    similarity |-> pro_compare_faces(embedding1, embedding2),
                    swapped |-> pro_compare_faces(embedding2, embedding1)]
    /\ UNCHANGED <<ledgerVars, req, variant, similarity_threshold, known_faces,
                   detected_faces, identified_faces, run_pc, run_i, session,
                   marked, unrecognized_faces, students, daily_code>>

CallFloatCompareFaces ==
    /\ call = NoCall
    /\ \E encoding1 \in FloatPool, encoding2 \in FloatPool :
           call' = [fn |-> "float_compare_faces",
                    encoding1 |-> encoding1, encoding2 |-> encoding2,
                    similarity |-> float_compare_faces(encoding1, encoding2),
                    swapped |-> float_compare_faces(encoding2, encoding1)]
    /\ UNCHANGED <<ledgerVars, req, variant, similarity_threshold, known_faces,
                   detected_faces, identified_faces, run_pc, run_i, session,
                   marked, unrecognized_faces, students, daily_code>>

-----------------------------------------------------------------------------
(* The extractor: mediapipe_face_recognition.py.  A crop is what            *)
(* generate_face_encoding looks at: its size, the landmark coordinates the  *)
(* face mesh finds in it (None when it finds no face) and its grey levels   *)
(* in the order of gray.flatten(), row by row from the top.  An encoding    *)
(* element is a float in the code; here it is the real value times          *)
(* EncodingUnit, rounded down.                                              *)

\* self.encoding_size (128 in the code)
encoding_size == 2

EncodingUnit == 2 * 2

\* the grey level of a white pixel
White == 255

EmptyCrop == [size |-> 0, landmarks |-> None, pixels |-> <<>>]

\* Crops with landmarks (the coordinates of a face the mesh found are not
\* all zero), crops without: grey, fading, black at the top only (a dark
\* background above the face), black throughout.
CropPool ==
    {EmptyCrop}
    \cup {[size |-> 3, landmarks |-> l, pixels |-> <<128, 128, 128>>] :
              l \in {<<3, 4>>, <<2, 0>>, <<0, 3>>}}
    \cup {[size |-> 3, landmarks |-> None, pixels |-> p] :
              p \in {<<128, 128, 128>>, <<White, 128, 0>>, <<0, 0, White>>,
                     <<0, 0, 0>>}}

\* encoding / np.linalg.norm(encoding)
Normalize(encoding) ==
    [i \in 1..Len(encoding) |->
        (encoding[i] * EncodingUnit) \div ISqrt(NormSq(encoding))]

\* np.pad(encoding, (0, n - len(encoding)))
Pad(encoding, n) == [i \in 1..n |-> IF i <= Len(encoding) THEN encoding[i] ELSE 0]

\* MediaPipeFaceRecognition._generate_basic_encoding on the grey levels of
\* the crop
generate_basic_encoding(gray) ==
    LET encoding == [i \in 1..Len(gray) |-> (gray[i] * EncodingUnit) \div White]
    IN  IF Len(encoding) > encoding_size THEN Truncate(encoding, encoding_size)
        ELSE IF Len(encoding) < encoding_size THEN Pad(encoding, encoding_size)
        ELSE encoding

\* MediaPipeFaceRecognition.generate_face_encoding
generate_face_encoding(face_image) ==
    IF face_image.size = 0 THEN None
    ELSE IF face_image.landmarks # None
    THEN Normalize(Truncate(face_image.landmarks,
                            Min(encoding_size, Len(face_image.landmarks))))
    ELSE generate_basic_encoding(face_image.pixels)

CallGenerateFaceEncoding ==
    /\ call = NoCall
    /\ \E face_image \in CropPool :
           call' = [fn |-> "generate_face_encoding", face_image |-> face_image,
                    encoding |-> generate_face_encoding(face_image)]
    /\ UNCHANGED <<ledgerVars, req, variant, similarity_threshold, known_faces,
                   detected_faces, identified_faces, run_pc, run_i, session,
                   marked, unrecognized_faces, students, daily_code>>

-----------------------------------------------------------------------------
(* The detector: the bounding box detect_faces builds from the box of the   *)
(* underlying detector, in pixels (after int()), and the shape of the       *)
(* image.                                                                   *)

\* width and height of the images
ImageSide == 2

Max(a, b) == IF a > b THEN a ELSE b

\* coordinates and sizes the underlying detector can report: off the image
\* on either side, of no size, larger than the image
RawCoordinates == (0 - 1)..(ImageSide + 1)

RawSizes == 0..(ImageSide + 1)

\* MediaPipeFaceRecognition.detect_faces, on one detection
detect_faces_bbox(xmin, ymin, raw_width, raw_height, w, h) ==
    LET x == Max(0, xmin)
        y == Max(0, ymin)
        width  == Min(raw_width, w - x)
        height == Min(raw_height, h - y)
    IN  <<x, y, width, height>>

\* ProfessionalFaceRecognizer.detect_faces, on one box of MTCNN
pro_detect_faces_bbox(bx1, by1, bx2, by2, w, h) ==
    LET x1 == Max(0, bx1)
        y1 == Max(0, by1)
        x2 == Min(w, bx2)
        y2 == Min(h, by2)
    IN  <<x1, y1, x2 - x1, y2 - y1>>

CallDetectFaces ==
    /\ call = NoCall
    /\ \E xmin \in RawCoordinates, ymin \in RawCoordinates,
          raw_width \in RawSizes, raw_height \in RawSizes :
           call' = [fn |-> "detect_faces",
                    raw |-> <<xmin, ymin, raw_width, raw_height>>,
                    shape |-> <<ImageSide, ImageSide>>,
                    bbox |-> detect_faces_bbox(xmin, ymin, raw_width,
                                               raw_height, ImageSide, ImageSide)]
    /\ UNCHANGED <<ledgerVars, req, variant, similarity_threshold, known_faces,
                   detected_faces, identified_faces, run_pc, run_i, session,
                   marked, unrecognized_faces, students, daily_code>>

CallProDetectFaces ==
    /\ call = NoCall
    /\ \E bx1 \in RawCoordinates, by1 \in RawCoordinates,
          bx2 \in RawCoordinates, by2 \in RawCoordinates :
           call' = [fn |-> "pro_detect_faces",
                    raw |-> <<bx1, by1, bx2, by2>>,
                    shape |-> <<ImageSide, ImageSide>>,
                    bbox |-> pro_detect_faces_bbox(bx1, by1, bx2, by2,
                                                   ImageSide, ImageSide)]
    /\ UNCHANGED <<ledgerVars, req, variant, similarity_threshold, known_faces,
                   detected_faces, identified_faces, run_pc, run_i, session,
                   marked, unrecognized_faces, students, daily_code>>

-----------------------------------------------------------------------------
(* The byte form of an encoding: column student.face_encoding.  An array    *)
(* is [dtype, data]; a blob is its bytes in words of 32 bits, little        *)
(* endian, a float64 being two words, the low one first.  The elements are  *)
(* the values 0, 1/4, .. 1 (0..EncodingUnit in the model), the words their  *)
(* IEEE-754 bit patterns.                                                    *)

\* the float32 bit patterns of 0, 0.25, 0.5, 0.75, 1.0
Float32Bits == <<0, 1048576000, 1056964608, 1061158912, 1065353216>>

\* the high words of the float64 bit patterns; the low words are 0
Float64HighBits == <<0, 1070596096, 1071644672, 1072168960, 1072693248>>

\* a float that is none of the element values
Other == 0 - 1

astype(array, dtype) == [dtype |-> dtype, data |-> array.data]

RECURSIVE Float64Words(_)
Float64Words(data) ==
    IF data = <<>> THEN <<>>
    ELSE <<0, Float64HighBits[Head(data) + 1]>> \o Float64Words(Tail(data))

\* ndarray.tobytes()
tobytes(array) ==
    IF array.dtype = "float32"
    THEN [i \in 1..Len(array.data) |-> Float32Bits[array.data[i] + 1]]
    ELSE Float64Words(array.data)

Decode32(word) ==
    IF \E v \in 0..EncodingUnit : Float32Bits[v + 1] = word
    THEN CHOOSE v \in 0..EncodingUnit : Float32Bits[v + 1] = word
    ELSE Other

Decode64(low, high) ==
    IF low = 0 /\ \E v \in 0..EncodingUnit : Float64HighBits[v + 1] = high
    THEN CHOOSE v \in 0..EncodingUnit : Float64HighBits[v + 1] = high
    ELSE Other

\* np.frombuffer(blob, dtype=dtype).  A blob whose size is not a multiple of
\* the element size raises ValueError; the readers catch it and skip the
\* row: None.
frombuffer(blob, dtype) ==
    IF dtype = "float32"
    THEN [dtype |-> dtype, data |-> [i \in 1..Len(blob) |-> Decode32(blob[i])]]
    ELSE IF Len(blob) % 2 # 0 THEN None
    ELSE [dtype |-> dtype,
          data |-> [i \in 1..(Len(blob) \div 2) |->
                       Decode64(blob[2 * i - 1], blob[2 * i])]]

\* What the extractor returns, as arrays: float32 encodings, and the
\* np.zeros(self.encoding_size) of the except branch of
\* _generate_basic_encoding, which is float64.
ExtractedArrays ==
    {[dtype |-> "float32", data |-> generate_face_encoding(face_image)] :
         face_image \in CropPool \ {EmptyCrop}}
    \cup {[dtype |-> "float64", data |-> [i \in 1..encoding_size |-> 0]]}

\* The statements that write student.face_encoding; converts: the array goes
\* through astype(np.float32) first.
Writers ==
    {[name |-> "add_student", converts |-> TRUE],
     [name |-> "edit_student", converts |-> TRUE],
     [name |-> "add_student_with_photo", converts |-> TRUE],
     [name |-> "regenerate_encodings", converts |-> TRUE],
     [name |-> "api_students_with_encodings", converts |-> FALSE]}

\* The statements that read it, with the dtype they pass to np.frombuffer.
Readers ==
    {[name |-> "detect_faces_live", dtype |-> "float32"],
     [name |-> "api_students_with_encodings", dtype |-> "float32"],
     [name |-> "detect_and_identify_faces", dtype |-> "float32"],
     [name |-> "create_student_database_from_sqlite", dtype |-> "float32"],
     [name |-> "test_face_recognition", dtype |-> "float64"],
     [name |-> "debug_full_pipeline", dtype |-> "float64"]}

\* the blob a writer stores for an array
Written(writer, array) ==
    tobytes(IF writer.converts THEN astype(array, "float32") ELSE array)

\* an encoding is written by one statement and read back by another
CallRoundTrip ==
    /\ call = NoCall
    /\ \E writer \in Writers, reader \in Readers, array \in ExtractedArrays :
           call' = [fn |-> "round_trip", writer |-> writer.name,
                    reader |-> reader.name, encoding |-> array.data,
                    blob |-> Written(writer, array),
                    read |-> frombuffer(Written(writer, array), reader.dtype)]
    /\ UNCHANGED <<ledgerVars, req, variant, similarity_threshold, known_faces,
                   detected_faces, identified_faces, run_pc, run_i, session,
                   marked, unrecognized_faces, students, daily_code>>

-----------------------------------------------------------------------------
(* Images without a face through the recognition handlers.  The bytes of    *)
(* the request are empty, not an image, or a decodable image in which the   *)
(* detector finds no face; none of these writes to the database.            *)

ImageData == {"empty", "undecodable", "no_face"}

\* cv2.imdecode(np.frombuffer(image_bytes, np.uint8), cv2.IMREAD_COLOR): what
\* it can do.  Bytes that are no image give None; an empty buffer raises
\* cv2.error or gives None, depending on the version of OpenCV.
imdecode(image_data) ==
    CASE image_data = "empty" -> {"raises", "None"}
      [] image_data = "undecodable" -> {"None"}
      [] image_data = "no_face" -> {"image"}

\* detect_faces_live, lines 416-444 and 532-537: detect_faces(None) returns
\* [] (mediapipe_face_recognition.py:57-59), as it does for an image
\* without a face.
detect_faces_live_response(image) ==
    IF image = "raises"
    THEN [success |-> FALSE, count |-> 0]
    ELSE [success |-> TRUE, count |-> 0]

\* process_attendance_image, lines 60-98, with _process_image_data
\* (lines 100-127), which turns an exception into None
process_attendance_image_response(image) ==
    IF image \in {"raises", "None"}
    THEN [success |-> FALSE, count |-> 0]
    ELSE [success |-> TRUE, count |-> 0]

CallDetectFacesLive ==
    /\ call = NoCall
    /\ \E image_data \in ImageData : \E image \in imdecode(image_data) :
           call' = [fn |-> "detect_faces_live", image_data |-> image_data,
                    response |-> detect_faces_live_response(image)]
    /\ UNCHANGED <<ledgerVars, req, variant, similarity_threshold, known_faces,
                   detected_faces, identified_faces, run_pc, run_i, session,
                   marked, unrecognized_faces, students, daily_code>>

CallProcessAttendanceImage ==
    /\ call = NoCall
    /\ \E image_data \in ImageData : \E image \in imdecode(image_data) :
           call' = [fn |-> "process_attendance_image", image_data |-> image_data,
                    response |-> process_attendance_image_response(image)]
    /\ UNCHANGED <<ledgerVars, req, variant, similarity_threshold, known_faces,
                   detected_faces, identified_faces, run_pc, run_i, session,
                   marked, unrecognized_faces, students, daily_code>>

CallNext ==
    \/ CallCompareFaces
    \/ CallProCompareFaces
    \/ CallFloatCompareFaces
    \/ CallGenerateFaceEncoding
    \/ CallDetectFaces
    \/ CallProDetectFaces
    \/ CallRoundTrip
    \/ CallDetectFacesLive
    \/ CallProcessAttendanceImage

SpecCalls == Init /\ [][CallNext]_vars

-----------------------------------------------------------------------------
(* Enrollment and recognition on one database: add_student, edit_student    *)
(* and detect_faces_live of app_enhanced_sql.py, served on threads.  A      *)
(* photo is the sequence of the crops detect_faces finds in it, in the      *)
(* detector's order; a row of table student is [id, photo_blob,             *)
(* face_encoding, is_active], face_encoding being a blob or None.  A         *)
(* behaviour is a series of enrollments and edits followed by one           *)
(* recognition request.                                                     *)

\* the crops of the photos: landmarks found, fallback encoding, black above
\* the face, a detection whose face_region is empty
FadingCrop == [size |-> 3, landmarks |-> None, pixels |-> <<White, 128, 0>>]
MeshCrop == [size |-> 3, landmarks |-> <<3, 4>>, pixels |-> <<128, 128, 128>>]
BlackTopCrop == [size |-> 3, landmarks |-> None, pixels |-> <<0, 0, White>>]

\* photos: without a face, with one face of each kind, with two faces
PhotoPool == {<<>>, <<MeshCrop>>, <<FadingCrop>>, <<BlackTopCrop>>,
              <<EmptyCrop>>, <<FadingCrop, MeshCrop>>}

\* similarity thresholds of a recognizer: those of the code and one just
\* below 1
EnrollThresholds == Thresholds \cup {Scale - 1}

\* lines 236-243 and 330-339: the blob for the first face of the photo, None
\* when no face is detected or no encoding is generated
PhotoEncoding(photo) ==
    IF photo = <<>> THEN None
    ELSE LET encoding == generate_face_encoding(photo[1])
         IN  IF encoding = None THEN None
             ELSE tobytes(astype([dtype |-> "float32", data |-> encoding],
                                 "float32"))

\* add_student, POST with a name, a new roll number and an allowed photo
\* file that save_photo_to_db can open.  The student is added to the session
\* before the photo is looked at and committed whatever the detector finds.
AddStudent(photo) ==
    /\ variant = "none"
    /\ Len(students) < NumStudents
    /\ students' = Append(students,
           [id |-> Len(students) + 1, photo_blob |-> photo,
            face_encoding |-> PhotoEncoding(photo), is_active |-> TRUE])
    /\ UNCHANGED <<ledgerVars, req, variant, similarity_threshold, known_faces,
                   detected_faces, identified_faces, run_pc, run_i, session,
                   marked, unrecognized_faces, call, daily_code>>

add_student == \E photo \in PhotoPool : AddStudent(photo)

\* edit_student, POST with a photo: photo_blob is replaced; face_encoding is
\* assigned only when a face is detected and an encoding generated.
EditStudent(student_id, photo) ==
    /\ variant = "none"
    /\ student_id \in 1..Len(students)
    /\ students[student_id].is_active
    /\ students' = [students EXCEPT ![student_id] =
           [@ EXCEPT !.photo_blob = photo,
                     !.face_encoding =
                         IF PhotoEncoding(photo) # None
                         THEN PhotoEncoding(photo) ELSE @]]
    /\ UNCHANGED <<ledgerVars, req, variant, similarity_threshold, known_faces,
                   detected_faces, identified_faces, run_pc, run_i, session,
                   marked, unrecognized_faces, call, daily_code>>

edit_student ==
    \E student_id \in 1..NumStudents, photo \in PhotoPool :
        EditStudent(student_id, photo)

\* detect_faces_live, lines 446-464, reading every blob as float64
LoadKnownFacesFloat64(table) ==
    LET with_encodings ==
            SelectSeq(table, LAMBDA student :
                student.face_encoding # None /\ student.is_active)
    IN  [i \in 1..Len(with_encodings) |->
            [id |-> with_encodings[i].id,
             encoding |-> frombuffer(with_encodings[i].face_encoding,
                                     "float64").data]]

\* detect_faces_live, lines 446-464: known_faces
LoadKnownFaces(table) ==
    LET with_encodings ==
            SelectSeq(table, LAMBDA student :
                student.face_encoding # None /\ student.is_active)
    IN  [i \in 1..Len(with_encodings) |->
            [id |-> with_encodings[i].id,
             encoding |-> frombuffer(with_encodings[i].face_encoding,
                                     "float32").data]]

\* identify_faces, lines 250-256: the faces of the image with the encoding
\* generated for each
FacesOf(photo) ==
    [i \in 1..Len(photo) |->
        [bbox |-> i, encoding |-> generate_face_encoding(photo[i])]]

\* detect_faces_live up to the call of identify_faces: the image is decoded,
\* the gallery loaded.  call keeps the image and the table as loaded.
LiveRequest ==
    /\ variant = "none"
    /\ \E photo \in PhotoPool, threshold \in EnrollThresholds :
           /\ detected_faces' = FacesOf(photo)
           /\ similarity_threshold' = threshold
           /\ call' = [fn |-> "detect_faces_live", image |-> photo,
                       students |-> students]
    /\ known_faces' = LoadKnownFaces(students)
    /\ variant' = "live"
    /\ run_pc' = "start"
    /\ UNCHANGED <<ledgerVars, req, identified_faces, run_i, session, marked,
                   unrecognized_faces, students, daily_code>>

EnrollInit == Init /\ schema = "models_enhanced"

EnrollNext ==
    \/ add_student
    \/ edit_student
    \/ LiveRequest
    \/ LiveIdentify
    \/ LiveMark
    \/ LiveCommit

SpecEnroll == EnrollInit /\ [][EnrollNext]_vars

-----------------------------------------------------------------------------
(* Claims about the similarity scorer *)

Scorers == {"compare_faces", "pro_compare_faces", "float_compare_faces"}

\* a scorer was called
Compared == call.fn \in Scorers

\* an array whose norm is zero
ZeroNorm(encoding) == encoding # None /\ NormSq(encoding) = 0

\* the value 0.0 as the called scorer returns it
ZeroSimilarity == IF call.fn = "float_compare_faces" THEN FZero ELSE 0

(* C11: when either argument of compare_faces has zero norm, the call      *)
(* returns exactly 0.0 (and so does not raise), whatever the other         *)
(* argument is.                                                            *)
C11_ZeroNormScoresZero ==
    Compared /\ (ZeroNorm(call.encoding1) \/ ZeroNorm(call.encoding2)) =>
        call.similarity = ZeroSimilarity

\* a zero vector was compared with a vector of non-zero norm
C11_ZeroVectorCompared ==
    /\ Compared
    /\ ZeroNorm(call.encoding1)
    /\ call.encoding2 # None /\ ~ZeroNorm(call.encoding2)
    /\ Len(call.encoding1) = Len(call.encoding2)

(* C12: compare_faces is symmetric: exchanging the two arguments gives the *)
(* same similarity, arrays of unequal length and zero vectors included.    *)
C12_ScorerIsSymmetric ==
    Compared => call.similarity = call.swapped

\* arrays of unequal length were compared, with a similarity above 0.0
C12_UnequalLengthsCompared ==
    /\ Compared
    /\ call.encoding1 # None /\ call.encoding2 # None
    /\ Len(call.encoding1) # Len(call.encoding2)
    /\ call.similarity # ZeroSimilarity

(* C13: the value compare_faces returns lies in the closed interval        *)
(* [0, 1].                                                                 *)
C13_SimilarityInUnitInterval ==
    Compared =>
        IF call.fn = "float_compare_faces"
        THEN ~FLess(call.similarity, FZero) /\ ~FLess(FOne, call.similarity)
        ELSE 0 <= call.similarity /\ call.similarity <= Scale

\* the called scorer applied to two arrays
Score(fn, encoding1, encoding2) ==
    CASE fn = "compare_faces" -> compare_faces(encoding1, encoding2)
      [] fn = "pro_compare_faces" -> pro_compare_faces(encoding1, encoding2)
      [] fn = "float_compare_faces" -> float_compare_faces(encoding1, encoding2)

(* C14: for arrays of unequal length, compare_faces returns the similarity *)
(* of the two arrays truncated to the shorter length.                      *)
C14_UnequalLengthsScoreTruncated ==
    Compared /\ call.encoding1 # None /\ call.encoding2 # None =>
        LET min_len == Min(Len(call.encoding1), Len(call.encoding2))
        IN  call.similarity = Score(call.fn, Truncate(call.encoding1, min_len),
                                    Truncate(call.encoding2, min_len))

-----------------------------------------------------------------------------
(* Claims about the extractor and the detector *)

(* C16: every encoding generate_face_encoding returns has non-zero norm;   *)
(* for a crop that would give the zero vector it returns None.             *)
C16_EncodingHasNonZeroNorm ==
    call.fn = "generate_face_encoding" => ~ZeroNorm(call.encoding)

\* a detector was called
Detected == call.fn \in {"detect_faces", "pro_detect_faces"}

(* C17: the bounding box (x, y, width, height) of every face detect_faces  *)
(* returns lies inside the image and has width > 0 and height > 0,         *)
(* whatever box the underlying detector reported.                          *)
C17_BoundingBoxInsideImage ==
    Detected =>
        LET x == call.bbox[1]
            y == call.bbox[2]
            width  == call.bbox[3]
            height == call.bbox[4]
        IN  /\ x >= 0 /\ y >= 0
            /\ x + width <= call.shape[1]
            /\ y + height <= call.shape[2]
            /\ width > 0 /\ height > 0

-----------------------------------------------------------------------------
(* Claims about the byte form of an encoding *)

(* C20: an encoding written to its blob by any writer and read back by any *)
(* reader is an array of the same length with the same elements.           *)
C20_BlobRoundTrip ==
    call.fn = "round_trip" =>
        /\ call.read # None
        /\ call.read.data = call.encoding

-----------------------------------------------------------------------------
(* Claims about enrollment *)

\* the photo shows one face, for which the extractor gives an encoding of
\* non-zero norm
OneEmbeddableFace(photo) ==
    /\ Len(photo) = 1
    /\ generate_face_encoding(photo[1]) # None
    /\ ~ZeroNorm(generate_face_encoding(photo[1]))

\* detect_faces_live has run identify_faces on the photo from which the
\* only student of the table was enrolled
SelfMatchRan ==
    /\ call.fn = "detect_faces_live"
    /\ run_pc # "start"
    /\ Len(call.students) = 1
    /\ call.students[1].photo_blob = call.image
    /\ OneEmbeddableFace(call.image)

C18_NoFaceNoStudent ==
    [][AddStudent(<<>>) => students' = students]_vars

(* C19: after edit_student with a new photo, the encoding stored for the   *)
(* student is the one generated from the new photo, and none when the new  *)
(* photo shows no face or gives no encoding; the old encoding is gone.     *)
C19_EditReplacesEncoding ==
    [][\A student_id \in 1..NumStudents, photo \in PhotoPool :
           EditStudent(student_id, photo) =>
               students'[student_id].face_encoding = PhotoEncoding(photo)]_vars

-----------------------------------------------------------------------------
(* The cached gallery of ProfessionalAttendanceSystem:                      *)
(* professional_integration.py, with delete_student of app_enhanced_sql.py  *)
(* on the same database.  known_faces is self.student_database, loaded by  *)
(* reload_student_database and kept between requests.                      *)

\* embeddings generate_ensemble_embedding returns, in units of 1/4
EmbeddingPool == {<<EncodingUnit, 0>>, <<0, EncodingUnit>>}

\* the id SQLite gives a new row of student: the largest id in use plus one
NextId(table) ==
    IF table = <<>> THEN 1
    ELSE 1 + CHOOSE id \in {table[i].id : i \in 1..Len(table)} :
                 \A i \in 1..Len(table) : table[i].id <= id

\* create_student_database_from_sqlite: rows with is_active = 1 and a
\* face_encoding, the blob read as float32
create_student_database_from_sqlite(table) ==
    LET rows == SelectSeq(table, LAMBDA row :
                    row.is_active /\ row.face_encoding # None)
    IN  [i \in 1..Len(rows) |->
            [id |-> rows[i].id,
             encoding |-> frombuffer(rows[i].face_encoding, "float32").data]]

\* add_student_with_photo with a photo in which a face is detected: the row
\* is inserted with the float32 bytes of the embedding, then the gallery is
\* reloaded (line 220)
add_student_with_photo ==
    /\ variant = "none"
    /\ Len(students) < NumStudents
    /\ NextId(students) <= NumStudents
    /\ \E embedding \in EmbeddingPool :
           students' = Append(students,
               [id |-> NextId(students), photo_blob |-> <<MeshCrop>>,
                face_encoding |-> tobytes(astype([dtype |-> "float32",
                                                  data |-> embedding], "float32")),
                is_active |-> TRUE])
    /\ known_faces' = create_student_database_from_sqlite(students')
    /\ UNCHANGED <<ledgerVars, req, variant, similarity_threshold, detected_faces,
                   identified_faces, run_pc, run_i, session, marked,
                   unrecognized_faces, call, daily_code>>

\* delete_student: the row is deleted and, by the cascade of
\* Student.attendance_records, the student's attendance records with it.
\* Nothing tells the ProfessionalAttendanceSystem.
delete_student ==
    /\ variant = "none"
    /\ \E student_id \in Students :
           /\ \E i \in 1..Len(students) : students[i].id = student_id
           /\ students' = SelectSeq(students, LAMBDA row : row.id # student_id)
           /\ attendance' = [row \in {x \in DOMAIN attendance :
                                         x.student_id # student_id}
                                 |-> attendance[row]]
    /\ UNCHANGED <<schema, today, req, variant, similarity_threshold, known_faces,
                   detected_faces, identified_faces, run_pc, run_i, session,
                   marked, unrecognized_faces, call, daily_code>>

\* retrain_model, line 267: reload_student_database
retrain_model ==
    /\ variant = "none"
    /\ known_faces' = create_student_database_from_sqlite(students)
    /\ UNCHANGED <<ledgerVars, req, variant, similarity_threshold, detected_faces,
                   identified_faces, run_pc, run_i, session, marked,
                   unrecognized_faces, call, students, daily_code>>

\* process_attendance_image up to the call of identify_student: the image is
\* decoded and its faces embedded; the gallery is the one in memory
ProRequest ==
    /\ variant = "none"
    /\ \E faces \in FaceLists(EmbeddingPool), threshold \in Thresholds :
           /\ detected_faces' = faces
           /\ similarity_threshold' = threshold
    /\ variant' = "pro"
    /\ run_pc' = "start"
    /\ UNCHANGED <<ledgerVars, req, known_faces, identified_faces, run_i, session,
                   marked, unrecognized_faces, call, students, daily_code>>

GalleryInit == Init /\ schema = "models_enhanced"

GalleryNext ==
    \/ add_student_with_photo
    \/ delete_student
    \/ retrain_model
    \/ ProRequest
    \/ ProIdentify
    \/ ProMark
    \/ ProRespond

SpecGallery == GalleryInit /\ [][GalleryNext]_vars

-----------------------------------------------------------------------------
(* The single-capture route: mark_attendance of app.py.  The run variables *)
(* are those of the other handlers: detected_faces is face_encodings,      *)
(* known_faces is all_students, identified_faces keeps per face the        *)
(* student the loop stopped at, marked the status it reported.             *)

\* face_recognition.compare_faces([stored], face, tolerance=0.6)[0]
matches(stored_encoding, face_encoding) ==
    face_distance(stored_encoding, face_encoding) <= GroupTolerance

RECURSIVE FirstMatchingStudent(_, _, _)
\* lines 152-190: the inner loop runs to its first match and breaks; a
\* student without face_encoding is skipped (line 153)
FirstMatchingStudent(face_encoding, all_students, k) ==
    IF k > Len(all_students) THEN NoStudent
    ELSE IF all_students[k].encoding # None
            /\ matches(all_students[k].encoding, face_encoding)
    THEN all_students[k].id
    ELSE FirstMatchingStudent(face_encoding, all_students, k + 1)

\* lines 140-147: no face ends the request
CaptureStart ==
    /\ variant = "capture" /\ run_pc = "start"
    /\ run_pc' = IF detected_faces = <<>> THEN "done" ELSE "mark"
    /\ UNCHANGED <<inputVars, attendance, identified_faces, run_i, session, marked,
                   unrecognized_faces>>

\* lines 151-190: one pass of the loop over face_encodings; the record is
\* added and committed inside the loop
CaptureFace ==
    /\ variant = "capture" /\ run_pc = "mark" /\ run_i <= Len(detected_faces)
    /\ LET face == detected_faces[run_i]
           student == FirstMatchingStudent(face.encoding, known_faces, 1)
       IN  /\ identified_faces' = Append(identified_faces,
                  [bbox |-> face.bbox, similarity |-> 0,
                   identified |-> student # NoStudent, student_info |-> student])
           /\ IF student = NoStudent
              THEN marked' = Append(marked, "none") /\ UNCHANGED attendance
              ELSE IF Existing(attendance, student, today)
              THEN /\ marked' = Append(marked, "Already marked today")
                   /\ UNCHANGED attendance
              ELSE /\ marked' = Append(marked, "Attendance marked")
                   /\ attendance' = attendance
                          (+) SetToBag({Row(student, today, "Present", 0)})
    /\ run_i' = run_i + 1
    /\ UNCHANGED <<inputVars, run_pc, session, unrecognized_faces>>

\* lines 192-203
CaptureRespond ==
    /\ variant = "capture" /\ run_pc = "mark" /\ run_i > Len(detected_faces)
    /\ run_pc' = "done"
    /\ UNCHANGED <<inputVars, attendance, identified_faces, run_i, session, marked,
                   unrecognized_faces>>

CaptureInit ==
    /\ variant = "capture"
    /\ schema = "models_enhanced"
    /\ similarity_threshold = GroupTolerance
    /\ known_faces \in Galleries(GroupGalleryPool)
    /\ detected_faces \in FaceLists(GroupFacePool)
    /\ identified_faces = <<>>
    /\ run_pc = "start"
    /\ run_i = 1
    /\ session = EmptyBag
    /\ marked = <<>>
    /\ unrecognized_faces = 0
    /\ attendance = EmptyBag
    /\ today = 1
    /\ req = [r \in 1..NumReq |-> IdleReq]
    /\ call = NoCall
    /\ students = <<>>
    /\ daily_code = <<>>

CaptureNext == CaptureStart \/ CaptureFace \/ CaptureRespond

SpecCapture == CaptureInit /\ [][CaptureNext]_vars

-----------------------------------------------------------------------------
(* Daily codes and the code-verified marking of app_secure_rural.py.        *)
(* daily_code is the table of that name, a sequence of rows; its column    *)
(* date is unique.  variant is the application that serves the requests.   *)

DailyApps == {"app_secure_rural", "app_enhanced_sql"}

\* str(secrets.randbelow(900000) + 100000)
Codes == {"347120", "905512", "618033"}

\* calls of generate_daily_code the log keeps
MaxCalls == 4

\* max_usage=1000, app_enhanced_sql.py:139
MaxUsage == 1000

\* DailyCode.is_valid, models_enhanced.py:215-222; valid_from and
\* valid_until are never assigned
is_valid(row) == row.is_active /\ row.usage_count < row.max_usage

\* DailyCode.query.filter_by(date=today).first()
DailyCodeOf(table, date) ==
    LET found == {i \in 1..Len(table) : table[i].date = date}
    IN  IF found = {} THEN None
        ELSE table[CHOOSE i \in found : \A j \in found : i <= j]

NewDailyCode(date, new_code) ==
    [date |-> date, daily_code |-> new_code, is_active |-> TRUE,
     usage_count |-> 0, max_usage |-> MaxUsage]

\* generate_daily_code replacing the code of the day at every call
GenerateDailyCodeRenews(app, table, date, new_code) ==
    [returned |-> new_code, raised |-> FALSE,
     table |-> SelectSeq(table, LAMBDA row : row.date # date)
                   \o <<NewDailyCode(date, new_code)>>]

\* generate_daily_code of either application run to its end: what it
\* returns and the table it leaves.  app_enhanced_sql.py returns the
\* existing code only if is_valid() (line 129); the INSERT of a second row
\* for a date raises IntegrityError, which nothing catches.
GenerateDailyCode(app, table, date, new_code) ==
    LET existing_code == DailyCodeOf(table, date)
    IN  IF existing_code # None
           /\ (app = "app_enhanced_sql" => is_valid(existing_code))
        THEN [returned |-> existing_code.daily_code, raised |-> FALSE,
              table |-> table]
        ELSE IF existing_code # None
        THEN [returned |-> "", raised |-> TRUE, table |-> table]
        ELSE [returned |-> new_code, raised |-> FALSE,
              table |-> Append(table, NewDailyCode(date, new_code))]

\* the calls of generate_daily_code since the last other request
Calls == IF call.fn = "generate_daily_code" THEN call.calls ELSE <<>>

generate_daily_code ==
    /\ variant \in DailyApps
    /\ Len(Calls) < MaxCalls
    /\ \E new_code \in Codes :
           LET done == GenerateDailyCode(variant, daily_code, today, new_code)
           IN  /\ daily_code' = done.table
               /\ call' = [fn |-> "generate_daily_code",
                           calls |-> Append(Calls,
                               [date |-> today, returned |-> done.returned,
                                raised |-> done.raised])]
    /\ UNCHANGED <<ledgerVars, req, variant, similarity_threshold, known_faces,
                   detected_faces, identified_faces, run_pc, run_i, session,
                   marked, unrecognized_faces, students>>

\* Student.secure_token of the student with this id
SecureToken(id) == <<"token", id>>

\* table student of app_secure_rural.py: two students
RuralStudents ==
    <<[id |-> 1, roll_number |-> RollNumber(1), secure_token |-> SecureToken(1)],
      [id |-> 2, roll_number |-> RollNumber(2), secure_token |-> SecureToken(2)]>>

\* student_id of a request: absent (0), a student's, or no student's
RequestStudentIds == {0, 1, 2, 3}

\* codes a request can carry: the generated ones and another string
RequestCodes == Codes \cup {""}

\* "not daily_code_obj or verification_code != daily_code_obj.daily_code"
InvalidCode(table, date, verification_code) ==
    \/ DailyCodeOf(table, date) = None
    \/ verification_code # DailyCodeOf(table, date).daily_code

\* mark_mobile_attendance; student_id 0 is a request without student_id
MarkMobileAttendance(student_id, verification_code) ==
    /\ variant = "app_secure_rural"
    /\ LET created ==
               /\ student_id # 0
               /\ ~InvalidCode(daily_code, today, verification_code)
               /\ \E i \in 1..Len(students) : students[i].id = student_id
               /\ ~Existing(attendance, student_id, today)
       IN  /\ attendance' =
                  IF created
                  THEN attendance (+) SetToBag({Row(student_id, today, "Mobile", 0)})
                  ELSE attendance
           /\ call' = [fn |-> "mark_mobile_attendance", date |-> today,
                       student_id |-> student_id, code |-> verification_code,
                       success |-> created]
    /\ UNCHANGED <<schema, today, req, variant, similarity_threshold, known_faces,
                   detected_faces, identified_faces, run_pc, run_i, session,
                   marked, unrecognized_faces, students, daily_code>>

mark_mobile_attendance ==
    \E student_id \in RequestStudentIds, verification_code \in RequestCodes :
        MarkMobileAttendance(student_id, verification_code)

\* Student.query.filter_by(secure_token=..., roll_number=...).first()
StudentByToken(table, student_token, roll_number) ==
    LET found == {i \in 1..Len(table) :
                     /\ table[i].secure_token = student_token
                     /\ table[i].roll_number = roll_number}
    IN  IF found = {} THEN NoStudent
        ELSE table[CHOOSE i \in found : \A j \in found : i <= j].id

\* scan_qr_attendance accepting a QR code of any date
ScanQrAttendanceAnyDate(qr_date, student_token, qr_daily_code, roll_number) ==
    /\ variant = "app_secure_rural"
    /\ LET student == StudentByToken(students, student_token, roll_number)
           created ==
               /\ ~InvalidCode(daily_code, today, qr_daily_code)
               /\ student # NoStudent
               /\ ~Existing(attendance, student, today)
       IN  /\ attendance' =
                  IF created
                  THEN attendance (+) SetToBag({Row(student, today, "QR_Secure", 0)})
                  ELSE attendance
           /\ call' = [fn |-> "scan_qr_attendance", date |-> today,
                       qr_date |-> qr_date, student_token |-> student_token,
                       code |-> qr_daily_code, roll_number |-> roll_number,
                       success |-> created]
    /\ UNCHANGED <<schema, today, req, variant, similarity_threshold, known_faces,
                   detected_faces, identified_faces, run_pc, run_i, session,
                   marked, unrecognized_faces, students, daily_code>>

\* scan_qr_attendance with qr_data "ATTEND:date:token:daily_code:roll_number"
ScanQrAttendance(qr_date, student_token, qr_daily_code, roll_number) ==
    /\ variant = "app_secure_rural"
    /\ LET student == StudentByToken(students, student_token, roll_number)
           created ==
               /\ qr_date = today
               /\ ~InvalidCode(daily_code, today, qr_daily_code)
               /\ student # NoStudent
               /\ ~Existing(attendance, student, today)
       IN  /\ attendance' =
                  IF created
                  THEN attendance (+) SetToBag({Row(student, today, "QR_Secure", 0)})
                  ELSE attendance
           /\ call' = [fn |-> "scan_qr_attendance", date |-> today,
                       qr_date |-> qr_date, student_token |-> student_token,
                       code |-> qr_daily_code, roll_number |-> roll_number,
                       success |-> created]
    /\ UNCHANGED <<schema, today, req, variant, similarity_threshold, known_faces,
                   detected_faces, identified_faces, run_pc, run_i, session,
                   marked, unrecognized_faces, students, daily_code>>

scan_qr_attendance ==
    \E qr_date \in 1..MaxDay, id1 \in {1, 2}, qr_daily_code \in RequestCodes,
       id2 \in {1, 2} :
        ScanQrAttendance(qr_date, SecureToken(id1), qr_daily_code, RollNumber(id2))

\* both applications, before any code is generated
DailyInit ==
    /\ variant \in DailyApps
    /\ schema = "models_enhanced"
    /\ similarity_threshold = 0
    /\ known_faces = <<>>
    /\ detected_faces = <<>>
    /\ identified_faces = <<>>
    /\ run_pc = "done"
    /\ run_i = 1
    /\ session = EmptyBag
    /\ marked = <<>>
    /\ unrecognized_faces = 0
    /\ attendance = EmptyBag
    /\ today = 1
    /\ req = [r \in 1..NumReq |-> IdleReq]
    /\ call = NoCall
    /\ students = <<>>
    /\ daily_code = <<>>

DailyNext == generate_daily_code \/ NextDay

SpecDaily == DailyInit /\ [][DailyNext]_vars

\* app_secure_rural.py on some date, with two students, no attendance and
\* at most the code of the day before
RuralInit ==
    /\ variant = "app_secure_rural"
    /\ schema = "models_enhanced"
    /\ similarity_threshold = 0
    /\ known_faces = <<>>
    /\ detected_faces = <<>>
    /\ identified_faces = <<>>
    /\ run_pc = "done"
    /\ run_i = 1
    /\ session = EmptyBag
    /\ marked = <<>>
    /\ unrecognized_faces = 0
    /\ attendance = EmptyBag
    /\ today \in 1..MaxDay
    /\ req = [r \in 1..NumReq |-> IdleReq]
    /\ call = NoCall
    /\ students = RuralStudents
    /\ daily_code \in {<<>>} \cup {<<NewDailyCode(today - 1, code)>> :
                                      code \in IF today > 1 THEN Codes ELSE {}}

RuralNext ==
    \/ generate_daily_code
    \/ mark_mobile_attendance
    \/ scan_qr_attendance

SpecRural == RuralInit /\ [][RuralNext]_vars

-----------------------------------------------------------------------------
(* The listing api_students_with_encodings of app_enhanced_sql.py.          *)
(* photo_blob None is a student without a photo (NULL).                    *)

\* photos a student row can hold: none, or a photo with one face
ListingPhotos == {None} \cup (PhotoPool \ {<<>>})

\* what face_encoding can hold: nothing, or the bytes of an encoding
ListingEncodings == {None} \cup {PhotoEncoding(photo) : photo \in PhotoPool}

ListingRows(id) ==
    {[id |-> id, photo_blob |-> photo, face_encoding |-> encoding,
      is_active |-> active] :
         photo \in ListingPhotos, encoding \in ListingEncodings,
         active \in BOOLEAN}

\* the student tables of up to NumStudents rows
ListingTables ==
    UNION {{t \in [1..k -> UNION {ListingRows(id) : id \in 1..k}] :
               \A i \in 1..k : t[i].id = i} : k \in 0..NumStudents}

\* the listing generating an encoding for every student with a photo
NeedsEncodingWithPhoto(student) ==
    student.is_active /\ student.photo_blob # None

\* lines 781 and 793: an active student, "student.photo_blob and not
\* student.face_encoding"
NeedsEncoding(student) ==
    /\ student.is_active
    /\ student.photo_blob # None
    /\ student.face_encoding = None

\* lines 794-813 for one student: the row after the loop body.  The
\* encoding is stored when a face is detected and an encoding generated
\* (encoding.tobytes(), line 812); anything else leaves the row.
Listed(student) ==
    IF NeedsEncoding(student) /\ generate_face_encoding(student.photo_blob[1]) # None
    THEN [student EXCEPT !.face_encoding =
              tobytes([dtype |-> "float32",
                       data |-> generate_face_encoding(student.photo_blob[1])])]
    ELSE student

\* GET /api/students_with_encodings; call keeps the tables as they were
api_students_with_encodings ==
    /\ variant = "listing"
    /\ students' = [i \in 1..Len(students) |-> Listed(students[i])]
    /\ call' = [fn |-> "api_students_with_encodings", students |-> students,
                attendance |-> attendance]
    /\ UNCHANGED <<ledgerVars, req, variant, similarity_threshold, known_faces,
                   detected_faces, identified_faces, run_pc, run_i, session,
                   marked, unrecognized_faces, daily_code>>

ListingInit ==
    /\ variant = "listing"
    /\ schema = "models_enhanced"
    /\ similarity_threshold = 0
    /\ known_faces = <<>>
    /\ detected_faces = <<>>
    /\ identified_faces = <<>>
    /\ run_pc = "done"
    /\ run_i = 1
    /\ session = EmptyBag
    /\ marked = <<>>
    /\ unrecognized_faces = 0
    /\ students \in ListingTables
    /\ attendance \in {SetToBag(rows) :
                          rows \in SUBSET {Row(1, 1, "Camera", LiveMarkThreshold)}}
    /\ today = 1
    /\ req = [r \in 1..NumReq |-> IdleReq]
    /\ call = NoCall
    /\ daily_code = <<>>

ListingNext == api_students_with_encodings

SpecListing == ListingInit /\ [][ListingNext]_vars

-----------------------------------------------------------------------------
(* Claims about the recognition handlers *)

(* C21: an empty or undecodable image is reported as a failure, never as   *)
(* the success with an empty result that an image without a face gets.     *)
C21_UndecodableImageFails ==
    /\ call.fn \in {"detect_faces_live", "process_attendance_image"}
    /\ call.image_data \in {"empty", "undecodable"}
    => ~call.response.success

-----------------------------------------------------------------------------
(* Claims about the ledger under repeated marking *)

C23_FalseOnlyWhenAlreadyMarked ==
    \A r \in Req :
        /\ req[r].kind = "pro" /\ req[r].pc = "done"
        /\ req[r].result = "False"
        => Existing(attendance, req[r].student_id, req[r].date)

-----------------------------------------------------------------------------
(* Claims about the gallery and the outcomes *)

Enrolled(student_id) == \E i \in 1..Len(students) : students[i].id = student_id

C24_MatchedAfterDelete ==
    \E i \in 1..Len(identified_faces) :
        /\ identified_faces[i].identified
        /\ ~Enrolled(identified_faces[i].student_info)

(* C25: the similarity an outcome reports is the greatest similarity       *)
(* between its face and the gallery entries, for identified and for        *)
(* unidentified faces alike.                                               *)
C25_ReportedSimilarityIsMax ==
    IdentificationRan =>
        \A result \in Outcomes :
            result.similarity = MaxSimilarity(FaceOf(result))

\* the same for the identified faces only
C25_IdentifiedReportsMax ==
    IdentificationRan =>
        \A result \in Outcomes :
            result.identified =>
                result.similarity = MaxSimilarity(FaceOf(result))

(* C26: in the single-capture route a face is attributed to the            *)
(* best-matching student: the student the face is attributed to has the    *)
(* smallest face distance among the students with an encoding, whatever    *)
(* the order of the students.                                              *)
C26_AttributedToBestMatch ==
    variant = "capture" =>
        \A result \in Outcomes :
            result.identified =>
                \A j \in WithEncoding :
                    DistanceTo(FaceOf(result), result.student_info)
                        <= DistanceTo(FaceOf(result), j)

\* process_group_photo has gone through the faces and responded
GroupPhotoProcessed ==
    /\ variant = "group" /\ run_pc = "done"
    /\ detected_faces # <<>> /\ known_faces # <<>>

\* the number of faces the loop reported with a status
CountStatus(status) ==
    Cardinality({i \in 1..Len(marked) : marked[i] = status})

(* C27: the summary of a processed group photo adds up: total_faces_found  *)
(* is students_recognized + already_marked + unrecognized_faces, every     *)
(* face being in exactly one of the three.                                 *)
C27_SummaryAddsUp ==
    GroupPhotoProcessed =>
        /\ Len(marked) = Len(detected_faces)
        /\ Len(detected_faces) = CountStatus("Attendance marked")
                                 + CountStatus("Already marked today")
                                 + unrecognized_faces

\* two faces of one photo were matched to the same student: one is counted
\* as recognized, the other as already marked
C27_TwoFacesOneStudent ==
    /\ GroupPhotoProcessed
    /\ Len(identified_faces) = 2
    /\ identified_faces[1].identified
    /\ identified_faces[1].student_info = identified_faces[2].student_info
    /\ marked = <<"Attendance marked", "Already marked today">>

-----------------------------------------------------------------------------
(* Claims about the daily code *)

CodeVerified == {"mark_mobile_attendance", "scan_qr_attendance"}

\* every check of the request recorded in c passes
Verified(c) ==
    /\ ~InvalidCode(daily_code, today, c.code)
    /\ IF c.fn = "scan_qr_attendance"
       THEN /\ c.qr_date = today
            /\ StudentByToken(students, c.student_token, c.roll_number) # NoStudent
       ELSE \E i \in 1..Len(students) : students[i].id = c.student_id

(* C29: a mobile or QR marking request with a code that is not today's     *)
(* daily code, a QR date that is not today, or no matching student leaves  *)
(* the attendance table as it is; a record is created only when every      *)
(* check has passed.                                                       *)
C29_NoRecordUnlessVerified ==
    [][(call'.fn \in CodeVerified /\ ~Verified(call')) => attendance' = attendance]_vars

\* a QR request with today's code and a student's own token and roll
\* number was refused for its date, on a day with a record of that day
C29_StaleQrRefused ==
    /\ call.fn = "scan_qr_attendance"
    /\ ~call.success
    /\ call.qr_date # today
    /\ ~InvalidCode(daily_code, today, call.code)
    /\ StudentByToken(students, call.student_token, call.roll_number) # NoStudent
    /\ ~Existing(attendance,
                 StudentByToken(students, call.student_token, call.roll_number), today)
    /\ \E row \in BagToSet(attendance) : row.date = today

-----------------------------------------------------------------------------
(* Claims about the listing *)

Listing == call.fn = "api_students_with_encodings"

=============================================================================
